---- MODULE Spec2Model ----
(***************************************************************************)
(* A model of the archive engine of core/src/lib.rs: the pipeline          *)
(* orchestrator (Extractor::extract, batch_extract, batch_compress), the   *)
(* two container shapes (TarContainer, ZipContainer) and the streaming     *)
(* integrity guard, over a small filesystem of paths.                      *)
(*                                                                         *)
(* A path is a sequence of components.  The component "/" marks an         *)
(* absolute entry name and ".." is the parent directory.  A format name is *)
(* the sequence of its dot-separated parts: "tar.zst" is <<"tar","zst">>.  *)
(***************************************************************************)
EXTENDS Integers, Sequences, FiniteSets, TLC

\* ---------------------------------------------------------------- bounds
MaxItems == 2
MaxEntries == 2
MaxBatchEntries == 1
MaxTrailer == 1
MaxConcurrency == 2
MaxFiles == 2
DigestBits == 3

\* Option<T>: None is the empty sequence, Some(v) the sequence of v alone.
None == <<>>
Some(v) == <<v>>
Get(o) == o[1]

\* ------------------------------------------------------------ filesystem
\* The directory every run starts in; it exists.
WorkDir == <<"w">>

\* The (input_path, output_dir) and (source, destination) names of item i.
InNames == <<"in1", "in2", "in3", "in4">>
OutNames == <<"o1", "o2", "o3", "o4">>
InputPath(i) == WorkDir \o <<InNames[i]>>
OutputDir(i) == WorkDir \o <<OutNames[i]>>

\* What the operating system makes of a path: "/" restarts at the root,
\* ".." leaves the directory reached so far.
RECURSIVE ResolveFrom(_, _)
ResolveFrom(acc, p) ==
    IF p = <<>> THEN acc
    ELSE IF Head(p) = "/" THEN ResolveFrom(<<>>, Tail(p))
    ELSE IF Head(p) = ".."
         THEN ResolveFrom(IF acc = <<>> THEN <<>> ELSE SubSeq(acc, 1, Len(acc) - 1), Tail(p))
    ELSE ResolveFrom(Append(acc, Head(p)), Tail(p))

Resolve(p) == ResolveFrom(<<>>, p)

\* PathBuf::join: an absolute argument replaces the base.
Join(base, p) == IF p # <<>> /\ Head(p) = "/" THEN p ELSE base \o p

\* Path::parent: the path without its last component.
Parent(p) == IF p = <<>> THEN <<>> ELSE SubSeq(p, 1, Len(p) - 1)

IsPrefix(r, p) == Len(r) <= Len(p) /\ SubSeq(p, 1, Len(r)) = r

\* The path p, once resolved, is the root or lies below it.
Under(root, p) == IsPrefix(Resolve(root), Resolve(p))

\* std::fs::create_dir_all on a filesystem (dirs, files): the directories of
\* p are made from the outermost one on; a regular file in the way fails the
\* call and leaves what was made before it.
RECURSIVE MkdirFrom(_, _, _, _)
MkdirFrom(ds, fs, p, k) ==
    IF k > Len(p) THEN [ok |-> TRUE, dirs |-> ds]
    ELSE LET q == Resolve(SubSeq(p, 1, k)) IN
         IF q \in fs THEN [ok |-> FALSE, dirs |-> ds]
         ELSE MkdirFrom(IF q = <<>> THEN ds ELSE ds \cup {q}, fs, p, k + 1)

CreateDirAll(ds, fs, p) == MkdirFrom(ds, fs, p, 1)

\* A regular file can be created or truncated at p: no directory is at p
\* and the directory holding p exists.
CanCreateFile(ds, fs, p) ==
    /\ Resolve(p) # <<>>
    /\ Resolve(p) \notin ds
    /\ (Resolve(Parent(p)) = <<>> \/ Resolve(Parent(p)) \in ds)

\* The data of files: a file a call writes holds the data 0 or 1 of an entry
\* or of a source file; a file that was there before the call holds 2.
OldContent(p) == <<p, 2>>

\* The content after the file at path `at` was created or truncated and, when
\* the write went through, filled with data d.
WriteFile(ct, at, ok, d) ==
    { c \in ct : c[1] # at } \cup (IF ok THEN {<<at, d>>} ELSE {})

\* ---------------------------------------------------------------- digest
\* crc32fast::hash scaled to DigestBits bits over 2-bit bytes: the reflected
\* bitwise CRC with all-ones initial value and final xor, generator
\* x^w + x^(w-1) + 1.
Pow2(n) == 2 ^ n
DigestMask == Pow2(DigestBits) - 1
ByteValues == 0 .. 3

RECURSIVE XorBits(_, _, _)
XorBits(a, b, n) ==
    IF n = 0 THEN 0
    ELSE (((a % 2) + (b % 2)) % 2) + 2 * XorBits(a \div 2, b \div 2, n - 1)

Xor(a, b) == XorBits(a, b, DigestBits)

CrcPoly == Pow2(DigestBits - 1) + 1

RECURSIVE CrcShift(_, _)
CrcShift(c, n) ==
    IF n = 0 THEN c
    ELSE CrcShift(IF (c % 2) = 1 THEN Xor(c \div 2, CrcPoly) ELSE c \div 2, n - 1)

\* Hasher::update with one byte.
CrcUpdate(c, byte) == CrcShift(Xor(c, byte), 2)

RECURSIVE CrcFeed(_, _)
CrcFeed(c, bytes) ==
    IF bytes = <<>> THEN c ELSE CrcFeed(CrcUpdate(c, Head(bytes)), Tail(bytes))

CrcInit == DigestMask
CrcFinal(c) == Xor(c, DigestMask)
Crc32(bytes) == CrcFinal(CrcFeed(CrcInit, bytes))

\* Hmac<Sha256> scaled the same way: the keyed digest of the bytes, the key
\* hashed in before and after them.
MacInit(key) == CrcUpdate(CrcInit, key)
MacFinal(key, c) == CrcFinal(CrcUpdate(c, key))
HmacSha256(key, bytes) == MacFinal(key, CrcFeed(MacInit(key), bytes))

\* --------------------------------------------------------------- formats
\* DetectedFormat::as_str, one name per tag.
DetectedNames ==
    { <<"tar", "zst">>, <<"tar", "lz4">>, <<"tar", "br">>, <<"tar", "gz">>,
      <<"tar">>, <<"zip">>, <<"7z">>, <<"rar">>, <<"unknown">> }

\* Codec::name of the three codecs with_defaults registers a TarContainer for.
CodecNames == {"zstd", "lz4", "brotli"}

\* TarContainer::name.
TarContainerName(codec) ==
    CASE codec = "zstd" -> <<"tar", "zst">>
      [] codec = "lz4" -> <<"tar", "lz4">>
      [] codec = "brotli" -> <<"tar", "br">>
      [] OTHER -> <<"tar">>

\* Extractor::with_defaults: the containers, in registration order.
Containers ==
    << [shape |-> "tar", codec |-> "zstd"],
       [shape |-> "tar", codec |-> "lz4"],
       [shape |-> "tar", codec |-> "brotli"],
       [shape |-> "zip", codec |-> "none"] >>

\* Container::name.
ContainerName(c) == IF c.shape = "zip" THEN <<"zip">> ELSE TarContainerName(c.codec)

\* c.name() == name, the test of Extractor::find.
NameMatchesPrefix(c, name) == Len(name) >= 1 /\ Head(ContainerName(c)) = Head(name)
NameMatches(c, name) == ContainerName(c) = name

\* Extractor::find: the first registered container of that name, or None.
Find(name) ==
    LET hits == {i \in 1 .. Len(Containers) : NameMatches(Containers[i], name)} IN
    IF hits = {} THEN None
    ELSE Some(Containers[CHOOSE i \in hits : \A j \in hits : i <= j])

\* compressor_from_name: the codec names a compressor exists for.
CompressorNames == {"zstd", "zst", "lz4", "lz4hc", "brotli", "br"}

\* The codec name Extractor::compress takes from the format string: the
\* second dot-separated part, or the whole string when it holds no dot.
CodecNameOf(format) == IF Len(format) >= 2 THEN format[2] ELSE format[1]

\* What each compressor writes, and what the decoder TarContainer makes for
\* each codec reads: ZstdCompressor and zstd Decoder the zstd frame format,
\* BrotliCompressor and brotli Decompressor the brotli stream,
\* Lz4Compressor the lz4 block format, lz4_flex FrameDecoder the lz4 frame
\* format.
CompressorEncoding(name) ==
    CASE name \in {"zstd", "zst"} -> "zstd frame"
      [] name \in {"lz4", "lz4hc"} -> "lz4 block"
      [] OTHER -> "brotli stream"

DecoderEncoding(codec) ==
    CASE codec = "zstd" -> "zstd frame"
      [] codec = "lz4" -> "lz4 frame"
      [] codec = "brotli" -> "brotli stream"
      [] OTHER -> "plain"

\* ----------------------------------------------------------------- policy
\* IntegrityPolicy (retry_attempts and block_size are read by no code).
Policy(crc, key, tag, skip) ==
    [crc32 |-> crc, hmac_key |-> key, hmac_tag |-> tag, skip_bad_blocks |-> skip]

\* IntegrityPolicy::default and IntegrityPolicy::strict.
DefaultPolicy == Policy(None, None, None, TRUE)
StrictPolicy == Policy(None, None, None, FALSE)

Digests == 0 .. DigestMask
SomeOf(S) == { Some(v) : v \in S }

\* The values a policy of the model expects or is keyed with.
ExpectedDigests == {0, 1}
HmacKeys == {1}

\* The policies a call is made with: no check, an expected CRC32, or an
\* HMAC key with or without its tag; each lenient or strict.
Policies ==
    { Policy(c, None, None, s) : c \in {None} \cup SomeOf(ExpectedDigests), s \in BOOLEAN }
    \cup { Policy(None, k, t, s) : k \in SomeOf(HmacKeys),
                                  t \in {None} \cup SomeOf(ExpectedDigests), s \in BOOLEAN }

\* The policies a batch is run with: the default one and the strict one.
BatchPolicies == { DefaultPolicy, StrictPolicy }

\* The test that makes an entry-level failure fatal.
AbortNever(pol) == FALSE
AbortOnFailure(pol) == ~pol.skip_bad_blocks

\* --------------------------------------------------------------- archives
\* The entry names an archive may hold: plain, nested, climbing, absolute.
EntryNames == { <<"a">>, <<"a", "b">>, <<"..", "x">>, <<"/", "x">> }

\* What an archive presents at one position: a file or directory entry, a
\* file whose data cannot be read or written ("data"), a header that cannot
\* be read ("read"), a name that cannot be decoded ("path"), or input on which
\* the library panics ("panic").
NameCode(nm) ==
    CASE nm = <<"a">> -> 1
      [] nm = <<"a", "b">> -> 2
      [] nm = <<"..", "x">> -> 3
      [] OTHER -> 0

\* An entry: its name, its kind, what is wrong with it and the data block
\* of a file.
Entry(nm, kind, fault, data) == [name |-> nm, kind |-> kind, fault |-> fault, data |-> data]

NamedEntries ==
    { Entry(nm, "file", f, NameCode(nm)) : nm \in EntryNames, f \in {"none", "data"} }
    \cup { Entry(nm, "dir", "none", 0) : nm \in EntryNames }
BrokenEntries == { Entry(<<>>, "file", f, 0) : f \in {"read", "path", "panic"} }
TarEntries == NamedEntries \cup BrokenEntries
ZipEntries == NamedEntries \cup { e \in BrokenEntries : e.fault # "path" }

\* The bytes an entry takes in the decompressed stream: a header block and,
\* for a file, a data block.  An all-zero header is the end-of-archive mark.
EntryBytes(e) ==
    IF e.fault = "read" THEN <<3>>
    ELSE IF e.kind = "dir" THEN <<2>>
    ELSE <<1, e.data>>

\* Entry::size.
EntrySize(e) == IF e.kind = "file" THEN 1 ELSE 0

\* What follows the end-of-archive mark in a stream.
RECURSIVE SeqsUpTo(_, _)
SeqsUpTo(S, n) ==
    IF n = 0 THEN {<<>>}
    ELSE LET shorter == SeqsUpTo(S, n - 1) IN
         shorter \cup { Append(q, x) : q \in shorter, x \in S }

Trailers == SeqsUpTo(ByteValues, MaxTrailer)

\* ZipFile::mangled_name: only the normal components of the name are kept.
MangledName(nm) == SelectSeq(nm, LAMBDA c : c \notin {"/", "..", "."})

\* ------------------------------------------------------------------ state
VARIABLES
    op,         \* the call: "batch_extract", "batch_compress", "extract", "compress",
                \* "roundtrip" (compress, then extract) or "detect_format"
    policy,     \* options.integrity
    items,      \* the input list: records [input, output, format]
    concurrency, \* options.concurrency
    auto,       \* the --auto flag of the extract command
    filters,    \* the include and exclude lists of a compression
    unopenable, \* the items of a batch whose input file cannot be opened
    cur,        \* the number of items whose loop iteration has ended
    pc,         \* the position in the code
    format,     \* the format name handed to Extractor::extract
    dirs,       \* the directories of the filesystem
    files,      \* the regular files of the filesystem
    content,    \* the data of regular files: pairs <<path, data>>
    temp,       \* the temporary file of a zip extraction: "none", "exists", "removed"
    reader,     \* the number of reads made from the input reader of this extraction
    guard,      \* the IntegrityGuardReader: [crc, hmac, bytes]
    stream,     \* the decompressed stream of this extraction, as far as it is known
    whole,      \* TRUE once stream holds the whole decompressed stream
    walk,       \* the outcome of every entry handled so far, in the order handled
    zlen,       \* ZipArchive::len of the opened archive
    ext,        \* the ExtractReport being built: [entries, bytes_written, warnings]
    src,        \* what compress found at the source: "none" (not looked at), "dir", "file", "missing"
    tree,       \* the files of the source directory met so far: records [path, data]
    tar_data,   \* the entries appended to the tar builder so far
    artifact,   \* what compress wrote to its destination: None or Some([encoding, entries])
    sniffed,    \* the file handed to detect_format: [name, head, size, header]
    magic,      \* what detect_from_magic_bytes returned, or "pending"
    detected,   \* what detect_format returned, or "pending"
    handed,     \* the bytes IntegrityGuardReader::read has returned to its caller
    printed,    \* the lines the extract command has printed
    res,        \* the Result the extraction or compression returned, or Pending
    report,     \* the batch report being built
    attempted,  \* the items whose processing has begun
    ret         \* what the call returned, or Pending

callVars == <<op, policy, items, concurrency, auto, filters, unopenable>>
fsVars == <<dirs, files, content>>
extractVars == <<temp, reader, guard, stream, whole, walk, zlen, ext>>
compressVars == <<src, tree, tar_data, artifact>>
detectVars == <<sniffed, magic, detected>>
guardVars == <<handed>>
cliVars == <<printed>>
vars == <<op, policy, items, concurrency, auto, filters, unopenable, cur, pc, format, dirs, files, content,
          temp, reader, guard, stream, whole, walk, zlen, ext, src, tree, tar_data,
          artifact, sniffed, magic, detected, handed, printed, res, report, attempted, ret>>

\* A Result: Ok, or an ExtractError with the code place that raised it, the
\* position of the entry that triggered it (0: none) and, for Unsupported, the
\* name it carries.
Res(kind, cause, entry, name) == [kind |-> kind, cause |-> cause, entry |-> entry, name |-> name]
Ok == Res("Ok", "none", 0, None)
\* No Result yet.
Pending == Res("pending", "none", 0, None)
Err(kind, cause) == Res(kind, cause, 0, None)
EntryErr(kind, cause, k) == Res(kind, cause, k, None)

\* No guard is made yet.
NoGuard == [crc |-> None, hmac |-> None, bytes |-> 0]

\* ExtractReport::default and the batch reports' default.
NoExtractReport == [entries |-> 0, bytes_written |-> 0, warnings |-> <<>>]
NoBatchReport ==
    [total |-> 0, successful |-> 0, failed |-> 0, total_files |-> 0, total_bytes |-> 0,
     errors |-> <<>>]

NoBatchCompressReport ==
    [total |-> 0, successful |-> 0, failed |-> 0, total_files |-> 0, total_bytes_read |-> 0,
     total_bytes_written |-> 0, errors |-> <<>>]

\* One string of a batch report's errors list: the path it displays and its
\* wording; item is the input it was made for.
ErrorString(i, path, text) == [item |-> i, path |-> path, text |-> text]

\* The compress formats of a batch: a registered codec, an unregistered one,
\* and names without a dot.
CompressFormats == { <<"tar", "zst">>, <<"tar", "gz">>, <<"zip">>, <<"lz4">> }

\* The format names Extractor::compress is called with directly.
CompressCallFormats ==
    { <<"tar", "zst">>, <<"tar", "lz4">>, <<"tar", "br">>, <<"tar", "gz">>, <<"zip">>,
      <<"zst">>, <<"bogus">> }

\* The format names Extractor::extract is called with directly.
ExtractFormats == DetectedNames \cup { <<"bogus">>, <<"auto">> }

\* ExtractOptions::concurrency of a batch: batch_extract takes it with its
\* options; CompressOptions has no such field, and no code of extract or
\* compress reads one (it is 1 there).
Concurrencies == 1 .. MaxConcurrency

\* CompressOptions::include and ::exclude: None or a list of patterns.  A
\* pattern and a relative path are strings, written as sequences of characters.
Filters(include, exclude) == [include |-> include, exclude |-> exclude]
NoFilters == Filters(None, None)
FilterChoices ==
    { Filters(i, e) : i \in {None, Some({}), Some({<<"a">>})},
                      e \in {None, Some({<<"a">>}), Some({<<"/">>})} }
BatchFilterChoices == { NoFilters, Filters(None, Some({<<"a">>})) }

\* No file is handed to detect_format.
NoFile == [name |-> <<>>, head |-> <<>>, size |-> 0,
           header |-> [null |-> FALSE, checksum |-> FALSE, magic |-> "none"]]

InitLocals ==
    /\ cur = 0
    /\ dirs = {WorkDir}
    /\ content = { OldContent(p) : p \in files }
    /\ src = "none"
    /\ tree = {}
    /\ tar_data = <<>>
    /\ artifact = None
    /\ temp = "none"
    /\ reader = 0
    /\ guard = NoGuard
    /\ stream = <<>>
    /\ whole = FALSE
    /\ walk = <<>>
    /\ zlen = 0
    /\ ext = NoExtractReport
    /\ res = Pending
    /\ attempted = {}
    /\ ret = Pending
    /\ handed = <<>>
    /\ printed = <<>>

\* The calls that sniff no file of the model.
NoDetection ==
    /\ auto = FALSE
    /\ sniffed = NoFile
    /\ magic = "pending"
    /\ detected = "pending"

\* batch_extract(archives, options): any list of up to MaxItems archives; a
\* regular file may sit where an output directory is to be made.
InitBatchExtract ==
    /\ op = "batch_extract"
    /\ unopenable = {}
    /\ policy \in BatchPolicies
    /\ concurrency \in Concurrencies
    /\ filters = NoFilters
    /\ \E n \in 0 .. MaxItems :
         /\ items = [i \in 1 .. n |-> [input |-> InputPath(i), output |-> OutputDir(i), format |-> None]]
         /\ \E blocked \in SUBSET (1 .. n) : files = { OutputDir(i) : i \in blocked }
    /\ report = [NoBatchReport EXCEPT !.total = Len(items)]
    /\ pc = "batch"
    /\ format = None
    /\ InitLocals
    /\ NoDetection

\* batch_extract(archives, options) on a list in which any of the input
\* files may be missing or unreadable.
InitBatchOpen ==
    /\ op = "batch_extract"
    /\ policy \in BatchPolicies
    /\ concurrency = 1
    /\ filters = NoFilters
    /\ \E n \in 0 .. MaxItems :
         /\ items = [i \in 1 .. n |-> [input |-> InputPath(i), output |-> OutputDir(i), format |-> None]]
         /\ \E blocked \in SUBSET (1 .. n) : files = { OutputDir(i) : i \in blocked }
         /\ unopenable \in SUBSET (1 .. n)
    /\ report = [NoBatchReport EXCEPT !.total = Len(items)]
    /\ pc = "batch"
    /\ format = None
    /\ InitLocals
    /\ NoDetection

\* batch_compress(sources, options).
InitBatchCompress ==
    /\ op = "batch_compress"
    /\ unopenable = {}
    /\ policy = DefaultPolicy
    /\ concurrency = 1
    /\ filters \in BatchFilterChoices
    /\ \E n \in 0 .. MaxItems :
         \E fmts \in [1 .. n -> CompressFormats] :
           items = [i \in 1 .. n |-> [input |-> InputPath(i), output |-> OutputDir(i), format |-> fmts[i]]]
    /\ files = {}
    /\ report = [NoBatchCompressReport EXCEPT !.total = Len(items)]
    /\ pc = "batch"
    /\ format = None
    /\ InitLocals
    /\ NoDetection

\* extract(format, reader, options), called directly.
InitExtract ==
    /\ op = "extract"
    /\ unopenable = {}
    /\ policy \in Policies
    /\ concurrency = 1
    /\ filters = NoFilters
    /\ \E f \in ExtractFormats :
         /\ items = << [input |-> InputPath(1), output |-> OutputDir(1), format |-> f] >>
         /\ format = f
    /\ \E blocked \in BOOLEAN : files = IF blocked THEN {OutputDir(1)} ELSE {}
    /\ report = NoBatchReport
    /\ pc = "extract"
    /\ InitLocals
    /\ NoDetection

\* compress(options), called directly; a file may be at the destination.
InitCompress ==
    /\ op = "compress"
    /\ unopenable = {}
    /\ policy = DefaultPolicy
    /\ concurrency = 1
    /\ filters \in FilterChoices
    /\ \E f \in CompressCallFormats :
         items = << [input |-> InputPath(1), output |-> OutputDir(1), format |-> f] >>
    /\ \E there \in BOOLEAN : files = IF there THEN {OutputDir(1)} ELSE {}
    /\ report = NoBatchCompressReport
    /\ pc = "compress"
    /\ format = None
    /\ InitLocals
    /\ NoDetection

\* A round trip: compress(options) of a source under a format name registered
\* for extraction, then extract under the same name and the default policy
\* of the file that was written, into a new directory.
InitRoundTrip ==
    /\ op = "roundtrip"
    /\ unopenable = {}
    /\ policy = DefaultPolicy
    /\ concurrency = 1
    /\ filters \in FilterChoices
    /\ \E i \in 1 .. Len(Containers) :
         LET f == ContainerName(Containers[i]) IN
         items = << [input |-> InputPath(1), output |-> OutputDir(1), format |-> f],
                    [input |-> OutputDir(1), output |-> OutputDir(2), format |-> f] >>
    /\ files = {}
    /\ report = NoBatchCompressReport
    /\ pc = "compress"
    /\ format = None
    /\ InitLocals
    /\ NoDetection

Init == InitBatchExtract \/ InitBatchCompress

\* The item of the running loop iteration, and options.destination of the
\* running extraction.
Item == items[cur + 1]
Dest == Item.output

\* ------------------------------------------------------------ batch_extract
ResetExtraction ==
    /\ temp' = "none"
    /\ reader' = 0
    /\ guard' = NoGuard
    /\ stream' = <<>>
    /\ whole' = FALSE
    /\ walk' = <<>>
    /\ zlen' = 0
    /\ ext' = NoExtractReport

\* An error arm of the batch loops: the error string is pushed, failed is
\* incremented and the loop goes on with the next item.
FailItemUncounted(path, text) ==
    /\ report' = [report EXCEPT !.errors = Append(@, ErrorString(cur + 1, path, text))]
    /\ cur' = cur + 1
    /\ pc' = "batch"
FailItem(path, text) ==
    /\ report' = [report EXCEPT !.errors = Append(@, ErrorString(cur + 1, path, text)),
                                !.failed = @ + 1]
    /\ cur' = cur + 1
    /\ pc' = "batch"

\* format_detection::detect_format(&input_path) on item i: Err (None) of
\* File::open or of the read, or one of the Sniffer's names.  When the
\* input cannot be opened, File::open fails and the error is passed on.
DetectFormatByName(i) == {None} \cup { Some(f) : f \in DetectedNames }
DetectFormat(i) ==
    IF i \in unopenable THEN {None}
    ELSE {None} \cup { Some(f) : f \in DetectedNames }

\* for (input_path, output_dir) in archives: match detect_format: the name
\* is taken, or the error is pushed and the loop continues.
Detect ==
    /\ op = "batch_extract"
    /\ pc = "batch"
    /\ cur < Len(items)
    /\ attempted' = attempted \cup {cur + 1}
    /\ \E r \in DetectFormat(cur + 1) :
         IF r = None
         THEN /\ FailItem(Item.input, "Failed to detect format for")
              /\ UNCHANGED format
         ELSE /\ format' = Get(r)
              /\ pc' = "mkdir"
              /\ UNCHANGED <<cur, report>>
    /\ UNCHANGED <<callVars, cliVars, detectVars, guardVars, compressVars, fsVars, extractVars, res, ret>>

\* tokio::fs::create_dir_all(&output_dir).
MakeOutputDir ==
    /\ pc = "mkdir"
    /\ LET made == CreateDirAll(dirs, files, Item.output) IN
       /\ dirs' = made.dirs
       /\ IF made.ok
          THEN pc' = "open" /\ UNCHANGED <<cur, report, format>>
          ELSE FailItem(Item.output, "Failed to create output directory") /\ format' = None
    /\ UNCHANGED <<callVars, cliVars, detectVars, guardVars, compressVars, files, content, extractVars, res, attempted, ret>>

\* tokio::fs::File::open(&input_path).
OpenInput ==
    /\ pc = "open"
    /\ \/ cur + 1 \notin unopenable /\ pc' = "extract" /\ UNCHANGED <<cur, report, format>>
       \/ FailItem(Item.input, "Failed to open") /\ format' = None
    /\ UNCHANGED <<callVars, cliVars, detectVars, guardVars, compressVars, fsVars, extractVars, res, attempted, ret>>

\* Where an extraction goes when it returns r: back into the loop of
\* batch_extract, or out of the call.
Return(r) ==
    /\ res' = r
    /\ IF op = "batch_extract"
       THEN pc' = "fold" /\ UNCHANGED ret
       ELSE pc' = "done" /\ ret' = r

\* match self.extract(..).await in batch_extract: an Ok report is added to the
\* totals and its warnings are pushed with the input path; an error is pushed
\* and counted.
FoldExtractAborting ==
    /\ pc = "fold"
    /\ op = "batch_extract"
    /\ IF res.kind = "Ok"
       THEN /\ report' = [report EXCEPT
                 !.successful = @ + 1,
                 !.total_files = @ + ext.entries,
                 !.total_bytes = @ + ext.bytes_written,
                 !.errors = @ \o [k \in 1 .. Len(ext.warnings) |->
                                     ErrorString(cur + 1, Item.input, ext.warnings[k])]]
            /\ cur' = cur + 1
            /\ pc' = "batch"
            /\ UNCHANGED ret
       ELSE /\ ret' = res
            /\ pc' = "done"
            /\ UNCHANGED <<cur, report>>
    /\ format' = None
    /\ res' = Pending
    /\ ResetExtraction
    /\ UNCHANGED <<callVars, cliVars, detectVars, guardVars, compressVars, fsVars, attempted>>
FoldExtractWarningsFail ==
    /\ pc = "fold"
    /\ op = "batch_extract"
    /\ IF res.kind = "Ok" /\ ext.warnings = <<>>
       THEN /\ report' = [report EXCEPT
                 !.successful = @ + 1,
                 !.total_files = @ + ext.entries,
                 !.total_bytes = @ + ext.bytes_written]
            /\ cur' = cur + 1
            /\ pc' = "batch"
       ELSE FailItem(Item.input, "Failed to extract")
    /\ format' = None
    /\ res' = Pending
    /\ ResetExtraction
    /\ UNCHANGED <<callVars, cliVars, detectVars, guardVars, compressVars, fsVars, attempted, ret>>
FoldExtract ==
    /\ pc = "fold"
    /\ op = "batch_extract"
    /\ IF res.kind = "Ok"
       THEN /\ report' = [report EXCEPT
                 !.successful = @ + 1,
                 !.total_files = @ + ext.entries,
                 !.total_bytes = @ + ext.bytes_written,
                 !.errors = @ \o [k \in 1 .. Len(ext.warnings) |->
                                     ErrorString(cur + 1, Item.input, ext.warnings[k])]]
            /\ cur' = cur + 1
            /\ pc' = "batch"
       ELSE FailItem(Item.input, "Failed to extract")
    /\ format' = None
    /\ res' = Pending
    /\ ResetExtraction
    /\ UNCHANGED <<callVars, cliVars, detectVars, guardVars, compressVars, fsVars, attempted, ret>>

\* Ok(report), after the last item of either batch loop.
BatchReturn ==
    /\ op \in {"batch_extract", "batch_compress"}
    /\ pc = "batch"
    /\ cur = Len(items)
    /\ ret' = Ok
    /\ pc' = "done"
    /\ UNCHANGED <<callVars, cliVars, detectVars, guardVars, compressVars, cur, format, fsVars, extractVars, res, report, attempted>>

\* ------------------------------------------------------- Extractor::extract
\* let Some(container) = self.find(format) else return Unsupported(format);
\* otherwise the container's extract_boxed starts.
ExtractCall ==
    /\ pc = "extract"
    /\ LET c == Find(format) IN
       IF c = None
       THEN Return(Res("Unsupported", "find", 0, format))
       ELSE /\ pc' = IF Get(c).shape = "zip" THEN "zip_temp" ELSE "tar_read"
            /\ UNCHANGED <<res, ret>>
    /\ UNCHANGED <<callVars, cliVars, detectVars, guardVars, compressVars, cur, format, fsVars, extractVars, report, attempted>>

\* ---------------------------------------------------- IntegrityGuardReader
\* IntegrityGuardReader::new: a hasher per configured check.
GuardNew(pol) ==
    [crc |-> IF pol.crc32 # None THEN Some(CrcInit) ELSE None,
     hmac |-> IF pol.hmac_key # None THEN Some(MacInit(Get(pol.hmac_key))) ELSE None,
     bytes |-> 0]

\* Read::read for IntegrityGuardReader: the bytes the inner reader returned
\* are fed to each hasher and counted.
GuardReadCrcOnly(g, bytes) ==
    [crc |-> IF g.crc # None THEN Some(CrcFeed(Get(g.crc), bytes)) ELSE None,
     hmac |-> g.hmac,
     bytes |-> g.bytes + Len(bytes)]
GuardRead(g, bytes) ==
    [crc |-> IF g.crc # None THEN Some(CrcFeed(Get(g.crc), bytes)) ELSE None,
     hmac |-> IF g.hmac # None THEN Some(CrcFeed(Get(g.hmac), bytes)) ELSE None,
     bytes |-> g.bytes + Len(bytes)]

\* IntegrityGuardReader::finalize: "clean", or the details of the failure.
GuardFinalize(g, pol) ==
    IF pol.crc32 # None /\ g.crc # None /\ CrcFinal(Get(g.crc)) # Get(pol.crc32)
    THEN "crc mismatch"
    ELSE IF g.hmac # None /\ pol.hmac_tag # None
            /\ MacFinal(Get(pol.hmac_key), Get(g.hmac)) # Get(pol.hmac_tag)
    THEN "hmac mismatch"
    ELSE "clean"

\* ------------------------------------------------------- resilience::guard
\* The longest byte sequence handed to the guards.
MaxBytes == 3

\* verify_crc32 and verify_hmac: Clean, or Corrupt with its reason.
verify_crc32(bytes, expected) ==
    IF Crc32(bytes) = expected THEN "clean" ELSE "crc mismatch"
verify_hmac(bytes, key, expected) ==
    IF HmacSha256(key, bytes) = expected THEN "clean" ELSE "hmac mismatch"

\* guard(bytes, policy): the CRC32 check when a value is expected, then the
\* HMAC check when a key and a tag are given.
GuardCrcOnly(bytes, pol) ==
    IF pol.crc32 # None
    THEN verify_crc32(bytes, Get(pol.crc32))
    ELSE IF pol.hmac_key # None /\ pol.hmac_tag # None
         THEN verify_hmac(bytes, Get(pol.hmac_key), Get(pol.hmac_tag))
         ELSE "clean"
Guard(bytes, pol) ==
    IF pol.crc32 # None /\ verify_crc32(bytes, Get(pol.crc32)) # "clean"
    THEN verify_crc32(bytes, Get(pol.crc32))
    ELSE IF pol.hmac_key # None /\ pol.hmac_tag # None
         THEN verify_hmac(bytes, Get(pol.hmac_key), Get(pol.hmac_tag))
         ELSE "clean"

\* Result<()> of a verdict.
VerdictResult(verdict) ==
    IF verdict = "clean" THEN Ok ELSE Err("IntegrityFailure", verdict)

\* IntegrityPolicy with all its fields.
FullPolicy(crc, key, tag, retry, skip, block) ==
    [crc32 |-> crc, hmac_key |-> key, hmac_tag |-> tag, retry_attempts |-> retry,
     skip_bad_blocks |-> skip, block_size |-> block]
RetryAttempts == {1, 3}
BlockSizes == {1, 1048576}

\* The policies the guards are called with: each check expected or not, a
\* key without a tag and a tag without a key included.
GuardPolicies ==
    { FullPolicy(c, k, t, r, s, b) :
        c \in {None} \cup SomeOf(ExpectedDigests),
        k \in {None} \cup SomeOf(HmacKeys),
        t \in {None} \cup SomeOf(ExpectedDigests),
        r \in RetryAttempts, s \in BOOLEAN, b \in BlockSizes }

\* IntegrityGuardReader over a source read to its end and finalized, then
\* guard(bytes, policy) on the bytes of that source.
InitGuard ==
    /\ op = "guard"
    /\ unopenable = {}
    /\ policy \in GuardPolicies
    /\ concurrency = 1
    /\ filters = NoFilters
    /\ items = <<>>
    /\ files = {}
    /\ report = NoBatchReport
    /\ format = None
    /\ pc = "reader_new"
    /\ InitLocals
    /\ NoDetection

GuardFrame ==
    UNCHANGED <<callVars, cliVars, detectVars, compressVars, fsVars, temp, walk, zlen, ext, cur, format,
                report, attempted>>

\* IntegrityGuardReader::new(inner, policy).
GuardReaderNew ==
    /\ op = "guard"
    /\ pc = "reader_new"
    /\ guard' = GuardNew(policy)
    /\ pc' = "reading"
    /\ GuardFrame
    /\ UNCHANGED <<reader, stream, whole, handed, res, ret>>

\* One call of read: the inner source fails, returns its next bytes, as many
\* as it likes, or returns 0 at its end.
GuardReaderRead ==
    /\ op = "guard"
    /\ pc = "reading"
    /\ reader' = reader + 1
    /\ \/ /\ ret' = Err("Io", "read")
          /\ pc' = "done"
          /\ UNCHANGED <<guard, stream, whole, handed>>
       \/ /\ \E chunk \in SeqsUpTo(ByteValues, MaxBytes - Len(stream)) \ {<<>>} :
               /\ stream' = stream \o chunk
               /\ guard' = GuardRead(guard, chunk)
               /\ handed' = handed \o chunk
          /\ UNCHANGED <<pc, whole, ret>>
       \/ /\ whole' = TRUE
          /\ pc' = "finalize"
          /\ UNCHANGED <<guard, stream, handed, ret>>
    /\ GuardFrame
    /\ UNCHANGED res

\* IntegrityGuardReader::finalize.
GuardReaderFinalize ==
    /\ op = "guard"
    /\ pc = "finalize"
    /\ ret' = VerdictResult(GuardFinalize(guard, policy))
    /\ pc' = "oneshot"
    /\ GuardFrame
    /\ UNCHANGED <<reader, guard, stream, whole, handed, res>>

\* guard(bytes, policy) on the bytes that were read.
GuardCall ==
    /\ op = "guard"
    /\ pc = "oneshot"
    /\ res' = VerdictResult(Guard(stream, policy))
    /\ pc' = "done"
    /\ GuardFrame
    /\ UNCHANGED <<reader, guard, stream, whole, handed, ret>>

NextGuard ==
    \/ GuardReaderNew
    \/ GuardReaderRead
    \/ GuardReaderFinalize
    \/ GuardCall

GuardSpec == InitGuard /\ [][NextGuard]_vars

\* --------------------------------------------- TarContainer::extract_boxed
Warn(text) == ext' = [ext EXCEPT !.warnings = Append(@, text)]

\* reader.read_to_end(&mut data): the whole input is read into memory.
TarReadAll ==
    /\ pc = "tar_read"
    /\ reader' = reader + 1
    /\ \/ pc' = "tar_decode" /\ UNCHANGED <<res, ret>>
       \/ Return(Err("IntegrityFailure", "read_to_end"))
    /\ UNCHANGED <<callVars, cliVars, detectVars, guardVars, compressVars, cur, format, fsVars, temp, guard, stream, whole, walk, zlen,
                   ext, report, attempted>>

\* The head of the worker closure: the decoder is made (only the zstd decoder
\* can fail here), wrapped in the guard, and archive.entries() starts the walk.
TarDecode ==
    /\ pc = "tar_decode"
    /\ \/ /\ guard' = GuardNew(policy)
          /\ pc' = "tar_walk"
          /\ UNCHANGED <<res, ret>>
       \/ /\ Get(Find(format)).codec = "zstd"
          /\ Return(Err("IntegrityFailure", "decoder"))
          /\ UNCHANGED guard
    /\ UNCHANGED <<callVars, cliVars, detectVars, guardVars, compressVars, cur, format, fsVars, temp, reader, stream, whole, walk, zlen,
                   ext, report, attempted>>

\* The number of entries the archives of a call hold at most.
EntryBound == IF op = "extract" THEN MaxEntries ELSE MaxBatchEntries

\* What the archives of a call hold.  The archives of a batch are drawn from
\* a smaller set than the archive handed to extract directly: entries named
\* a, and nothing after the end-of-archive mark.
BatchEntryNames == { <<"a">> }
EntriesOf(S) ==
    IF op = "extract" THEN S ELSE { e \in S : e.name \in BatchEntryNames \cup {<<>>} }
TrailersOf == IF op = "extract" THEN Trailers ELSE {<<>>}

\* Entry::unpack(&out_path) on (ds, files): what it leaves on the filesystem
\* and whether it succeeded.  It writes where it is told: the path is not
\* checked against the destination.
TarUnpack(ds, e, out_path) ==
    LET at == Resolve(out_path) IN
    IF e.kind = "dir"
    THEN [ok |-> at \notin files, dirs |-> IF at \notin files THEN ds \cup {at} ELSE ds,
          files |-> files, content |-> content]
    ELSE IF CanCreateFile(ds, files, out_path)
         THEN [ok |-> e.fault = "none", dirs |-> ds, files |-> files \cup {at},
               content |-> WriteFile(content, at, e.fault = "none", e.data)]
         ELSE [ok |-> FALSE, dirs |-> ds, files |-> files, content |-> content]

\* One iteration of for entry_res in entries_iter, for the entry e the
\* iterator yields at position k.  The iterator of the tar library yields
\* nothing after an Err item.
TarEntryStep(e, k) ==
    /\ guard' = GuardRead(guard, EntryBytes(e))
    /\ CASE e.fault = "panic" ->
              /\ Return(Err("Join", "panic"))
              /\ walk' = Append(walk, "panic")
              /\ stream' = stream \o EntryBytes(e)
              /\ UNCHANGED <<fsVars, ext, whole>>
         [] e.fault = "read" ->
              /\ Warn("entry read failure")
              /\ UNCHANGED fsVars
              /\ IF AbortOnFailure(policy)
                 THEN /\ Return(EntryErr("IntegrityFailure", "entry_read", k))
                      /\ walk' = Append(walk, "fatal")
                      /\ stream' = stream \o EntryBytes(e)
                      /\ UNCHANGED whole
                 ELSE /\ walk' = Append(walk, "skipped")
                      /\ \E rest \in TrailersOf : stream' = stream \o EntryBytes(e) \o rest
                      /\ whole' = TRUE
                      /\ pc' = "tar_finalize"
                      /\ UNCHANGED <<res, ret>>
         [] e.fault = "path" ->
              /\ Warn("path error")
              /\ stream' = stream \o EntryBytes(e)
              /\ UNCHANGED <<fsVars, whole>>
              /\ IF AbortOnFailure(policy)
                 THEN /\ Return(EntryErr("IntegrityFailure", "path", k))
                      /\ walk' = Append(walk, "fatal")
                 ELSE /\ walk' = Append(walk, "skipped")
                      /\ UNCHANGED <<pc, res, ret>>
         [] OTHER ->
              LET out_path == Join(Dest, e.name)
                  made == CreateDirAll(dirs, files, Parent(out_path))
                  done == TarUnpack(made.dirs, e, out_path)
              IN
              /\ stream' = stream \o EntryBytes(e)
              /\ UNCHANGED whole
              /\ IF ~made.ok
                 THEN /\ dirs' = made.dirs
                      /\ Return(EntryErr("Io", "mkdir", k))
                      /\ walk' = Append(walk, "fatal")
                      /\ UNCHANGED <<files, content, ext>>
                 ELSE /\ dirs' = done.dirs
                      /\ files' = done.files
                      /\ content' = done.content
                      /\ IF done.ok
                         THEN /\ ext' = [ext EXCEPT !.entries = @ + 1,
                                                    !.bytes_written = @ + EntrySize(e)]
                              /\ walk' = Append(walk, "ok")
                              /\ UNCHANGED <<pc, res, ret>>
                         ELSE /\ Warn("failed unpack")
                              /\ IF AbortOnFailure(policy)
                                 THEN /\ Return(EntryErr("IntegrityFailure", "unpack", k))
                                      /\ walk' = Append(walk, "fatal")
                                 ELSE /\ walk' = Append(walk, "skipped")
                                      /\ UNCHANGED <<pc, res, ret>>


\* What the iterator yields when the input is the file a compression wrote:
\* the entries that were appended, when the decoder reads the encoding the
\* compressor wrote; otherwise the decoder's error at the first read of a
\* header.
Decodes == Get(artifact).encoding = DecoderEncoding(Get(Find(format)).codec)
Yielded == IF Decodes THEN Get(artifact).entries ELSE << Entry(<<>>, "file", "read", 0) >>

TarEntry ==
    /\ pc = "tar_walk"
    /\ IF artifact = None
       THEN /\ Len(walk) < EntryBound
            /\ \E e \in EntriesOf(TarEntries) : TarEntryStep(e, Len(walk) + 1)
       ELSE /\ Len(walk) < Len(Yielded)
            /\ TarEntryStep(Yielded[Len(walk) + 1], Len(walk) + 1)
    /\ UNCHANGED <<callVars, cliVars, detectVars, guardVars, compressVars, cur, format, temp, reader, zlen, report, attempted>>

\* The iterator ends: at the end of the stream, or at the first all-zero
\* header block, which it reads; what follows that block is not read.
TarEnd ==
    /\ pc = "tar_walk"
    /\ IF artifact = None
       THEN \/ UNCHANGED <<guard, stream>>
            \/ /\ guard' = GuardRead(guard, <<0>>)
               /\ \E rest \in TrailersOf : stream' = stream \o <<0>> \o rest
       ELSE /\ Decodes
            /\ Len(walk) = Len(Yielded)
            /\ guard' = GuardRead(guard, <<0>>)
            /\ stream' = stream \o <<0, 0>>
    /\ whole' = TRUE
    /\ pc' = "tar_finalize"
    /\ UNCHANGED <<callVars, cliVars, detectVars, guardVars, compressVars, cur, format, fsVars, temp, reader, walk, zlen, ext, res,
                   report, attempted, ret>>

\* guarded.finalize()?; Ok(ExtractReport { .. }).
TarFinalize ==
    /\ pc = "tar_finalize"
    /\ LET verdict == GuardFinalize(guard, policy) IN
       IF verdict = "clean" THEN Return(Ok)
       ELSE Return(Err("IntegrityFailure", verdict))
    /\ UNCHANGED <<callVars, cliVars, detectVars, guardVars, compressVars, cur, format, fsVars, extractVars, report, attempted>>

\* --------------------------------------------- ZipContainer::extract_boxed
\* The temporary file is owned by a NamedTempFile and then by the TempPath
\* that the worker closure captures: leaving their scope removes the file.
LeakTemp == temp' = temp
DropTemp == temp' = "removed"

\* spawn_blocking(NamedTempFile::new) and temp.reopen().
ZipTemp ==
    /\ pc = "zip_temp"
    /\ \/ /\ temp' = "exists"
          /\ pc' = "zip_copy"
          /\ UNCHANGED <<res, ret>>
       \/ Return(Err("IntegrityFailure", "tempfile task")) /\ UNCHANGED temp
       \/ Return(Err("Io", "tempfile")) /\ UNCHANGED temp
       \/ Return(Err("Io", "reopen")) /\ DropTemp
    /\ UNCHANGED <<callVars, cliVars, detectVars, guardVars, compressVars, cur, format, fsVars, reader, guard, stream, whole, walk, zlen,
                   ext, report, attempted>>

\* tokio::io::copy(&mut reader, &mut writer) and writer.flush().
ZipCopy ==
    /\ pc = "zip_copy"
    /\ reader' = reader + 1
    /\ \/ pc' = "zip_open" /\ UNCHANGED <<temp, res, ret>>
       \/ Return(Err("Io", "copy input")) /\ DropTemp
    /\ UNCHANGED <<callVars, cliVars, detectVars, guardVars, compressVars, cur, format, fsVars, guard, stream, whole, walk, zlen, ext,
                   report, attempted>>

\* The head of the worker closure: File::open(&temp_path) and ZipArchive::new.
ZipOpen ==
    /\ pc = "zip_open"
    /\ \/ /\ \E n \in 0 .. EntryBound : zlen' = n
          /\ pc' = "zip_walk"
          /\ UNCHANGED <<temp, res, ret>>
       \/ Return(Err("Io", "open temp")) /\ DropTemp /\ UNCHANGED zlen
       \/ Return(Err("IntegrityFailure", "zip open")) /\ DropTemp /\ UNCHANGED zlen
       \/ Return(Err("Join", "panic")) /\ DropTemp /\ UNCHANGED zlen
    /\ UNCHANGED <<callVars, cliVars, detectVars, guardVars, compressVars, cur, format, fsVars, reader, guard, stream, whole, walk, ext,
                   report, attempted>>

\* One iteration of for i in 0..archive.len(), for the entry e at index k.
ZipEntryStep(e, k) ==
    CASE e.fault = "panic" ->
           /\ Return(Err("Join", "panic"))
           /\ DropTemp
           /\ walk' = Append(walk, "panic")
           /\ UNCHANGED <<fsVars, ext>>
      [] e.fault = "read" ->
           /\ Warn("entry read failed")
           /\ UNCHANGED fsVars
           /\ IF AbortOnFailure(policy)
              THEN /\ Return(EntryErr("IntegrityFailure", "entry_read", k))
                   /\ DropTemp
                   /\ walk' = Append(walk, "fatal")
              ELSE /\ walk' = Append(walk, "skipped")
                   /\ UNCHANGED <<pc, res, ret, temp>>
      [] e.kind = "dir" ->
           LET out_path == Join(Dest, MangledName(e.name))
               made == CreateDirAll(dirs, files, out_path)
           IN
           /\ dirs' = made.dirs
           /\ UNCHANGED <<files, content, ext>>
           /\ IF made.ok
              THEN /\ walk' = Append(walk, "dir")
                   /\ UNCHANGED <<pc, res, ret, temp>>
              ELSE /\ Return(EntryErr("Io", "mkdir", k))
                   /\ DropTemp
                   /\ walk' = Append(walk, "fatal")
      [] OTHER ->
           LET out_path == Join(Dest, MangledName(e.name))
               made == CreateDirAll(dirs, files, Parent(out_path))
               created == made.ok /\ CanCreateFile(made.dirs, files, out_path)
           IN
           /\ dirs' = made.dirs
           /\ files' = IF created THEN files \cup {Resolve(out_path)} ELSE files
           /\ content' = IF created
                         THEN WriteFile(content, Resolve(out_path), e.fault = "none", e.data)
                         ELSE content
           /\ IF ~made.ok
              THEN /\ Return(EntryErr("Io", "mkdir", k))
                   /\ DropTemp
                   /\ walk' = Append(walk, "fatal")
                   /\ UNCHANGED ext
              ELSE IF created /\ e.fault = "none"
              THEN /\ ext' = [ext EXCEPT !.entries = @ + 1,
                                         !.bytes_written = @ + EntrySize(e)]
                   /\ walk' = Append(walk, "ok")
                   /\ UNCHANGED <<pc, res, ret, temp>>
              ELSE /\ Warn(IF created THEN "copy failed" ELSE "create failed")
                   /\ IF AbortOnFailure(policy)
                      THEN /\ Return(IF created
                                     THEN EntryErr("IntegrityFailure", "copy", k)
                                     ELSE EntryErr("Io", "create", k))
                           /\ DropTemp
                           /\ walk' = Append(walk, "fatal")
                      ELSE /\ walk' = Append(walk, "skipped")
                           /\ UNCHANGED <<pc, res, ret, temp>>

ZipEntry ==
    /\ pc = "zip_walk"
    /\ Len(walk) < zlen
    /\ \E e \in EntriesOf(ZipEntries) : ZipEntryStep(e, Len(walk) + 1)
    /\ UNCHANGED <<callVars, cliVars, detectVars, guardVars, compressVars, cur, format, reader, guard, stream, whole, zlen, report,
                   attempted>>

\* After the last index: temp_path.close() and Ok(ExtractReport { .. }).
ZipEnd ==
    /\ pc = "zip_walk"
    /\ Len(walk) = zlen
    /\ temp' = "removed"
    /\ Return(Ok)
    /\ UNCHANGED <<callVars, cliVars, detectVars, guardVars, compressVars, cur, format, fsVars, reader, guard, stream, whole, walk, zlen,
                   ext, report, attempted>>

\* ----------------------------------------------------- Extractor::compress
\* The relative paths of the files a source directory may hold, as strings
\* (sequences of characters), and the files themselves.
SourcePaths == { <<"a">>, <<"b">>, <<"d", "/", "a">> }
SourceFiles == { [path |-> q, data |-> d] : q \in SourcePaths, d \in 0 .. 1 }

\* The source directories of a batch hold files a and b, of data 0.
SourceFilesOf ==
    IF op = "batch_compress"
    THEN { f \in SourceFiles : f.path \in {<<"a">>, <<"b">>} /\ f.data = 0 }
    ELSE SourceFiles

\* str::contains: pat is a substring of s.
Contains(s, pat) ==
    \E i \in 1 .. (Len(s) - Len(pat) + 1) : SubSeq(s, i, i + Len(pat) - 1) = pat

\* The include/exclude test of the directory walk: the file is appended when
\* it passes this test.
SelectedIncludeFirst(path) ==
    IF filters.include # None /\ \E pat \in Get(filters.include) : Contains(path, pat)
    THEN TRUE
    ELSE /\ filters.include = None
         /\ filters.exclude # None => ~ \E pat \in Get(filters.exclude) : Contains(path, pat)
Selected(path) ==
    /\ filters.include # None => \E pat \in Get(filters.include) : Contains(path, pat)
    /\ filters.exclude # None => ~ \E pat \in Get(filters.exclude) : Contains(path, pat)

\* The components of a relative path string (each is one character here).
Components(s) == SelectSeq(s, LAMBDA c : c # "/")

\* Path::file_name of the source path.
FileName(p) == <<p[Len(p)]>>

\* tar_data.len() and compressed.len(), in blocks: a header and a data block
\* per entry and the two blocks of the end mark; a frame header and a block
\* per entry.
TarLen(td) == 2 * Len(td) + 2
CompressedLen(td) == Len(td) + 1

\* Where a compression goes when it returns r: back into the loop of
\* batch_compress, or out of the call; a round trip goes on to extract what
\* was written.
CompressReturn(r) ==
    /\ res' = r
    /\ IF op = "batch_compress" THEN pc' = "cfold" /\ UNCHANGED ret
       ELSE IF op = "roundtrip" /\ r.kind = "Ok" THEN pc' = "reopen" /\ UNCHANGED ret
       ELSE pc' = "done" /\ ret' = r

\* The head of compress: the codec name is taken from the format string and
\* the compressor looked up; then the source path is examined.
CompressStart ==
    /\ op \in {"batch_compress", "compress", "roundtrip"}
    /\ pc = IF op = "batch_compress" THEN "batch" ELSE "compress"
    /\ cur < Len(items)
    /\ attempted' = attempted \cup {cur + 1}
    /\ LET codec == CodecNameOf(Item.format) IN
       IF codec \notin CompressorNames
       THEN /\ CompressReturn(Res("Unsupported", "compressor", 0, <<codec>>))
            /\ UNCHANGED src
       ELSE /\ \E k \in {"dir", "file", "missing"} : src' = k
            /\ pc' = "cwalk"
            /\ UNCHANGED <<res, ret>>
    /\ UNCHANGED <<callVars, cliVars, detectVars, guardVars, cur, format, fsVars, extractVars, tree, tar_data, artifact,
                   report>>

\* File::open and tar_builder.append_file for the file f under the entry
\* name nm.
AppendFile(f, nm) ==
    \/ /\ tar_data' = Append(tar_data, Entry(nm, "file", "none", f.data))
       /\ UNCHANGED <<pc, res, ret>>
    \/ /\ CompressReturn(Err("Io", "open source"))
       /\ UNCHANGED tar_data
    \/ /\ CompressReturn(Err("IntegrityFailure", "append"))
       /\ UNCHANGED tar_data

\* One file of the source: the next file the directory walk meets, appended
\* when the filters select it, or the source itself when it is a file.
CompressAppend ==
    /\ pc = "cwalk"
    /\ Cardinality(tree) < MaxFiles
    /\ \/ /\ src = "dir"
          /\ \E f \in SourceFilesOf :
               /\ \A g \in tree : g.path # f.path
               /\ tree' = tree \cup {f}
               /\ IF Selected(f.path)
                  THEN AppendFile(f, Components(f.path))
                  ELSE UNCHANGED <<tar_data, pc, res, ret>>
       \/ /\ src = "file"
          /\ tree = {}
          /\ \E d \in 0 .. 1 :
               LET f == [path |-> FileName(Item.input), data |-> d] IN
               /\ tree' = {f}
               /\ AppendFile(f, f.path)
    /\ UNCHANGED <<callVars, cliVars, detectVars, guardVars, cur, format, fsVars, extractVars, src, artifact, report,
                   attempted>>

\* The steps of the rest of compress that File::create of the destination
\* comes before: a return from one of them leaves a created or truncated
\* file behind.
CreatesDestinationBeforeCompressing(r) == r.kind = "Ok" \/ r.cause \in {"compress", "write"}
CreatesDestination(r) == r.kind = "Ok" \/ r.cause = "write"

\* The rest of compress: tar_builder.finish, files = 1, compressor.compress,
\* File::create of the destination, write_all and flush, Ok(CompressReport).
CompressFinish ==
    /\ pc = "cwalk"
    /\ src = "file" => tree # {}
    /\ LET dest == Resolve(Item.output) IN
       \/ /\ \E e \in { Err("IntegrityFailure", "finish"), Err("IntegrityFailure", "compress"),
                        Err("Io", "create"), Err("Io", "write") } :
                /\ CompressReturn(e)
                /\ IF CreatesDestination(e)
                   THEN /\ files' = files \cup {dest}
                        /\ content' = WriteFile(content, dest, FALSE, 0)
                   ELSE UNCHANGED <<files, content>>
          /\ UNCHANGED <<dirs, ext, artifact>>
       \/ /\ CompressReturn(Ok)
          /\ files' = files \cup {dest}
          /\ content' = WriteFile(content, dest, FALSE, 0)
          /\ artifact' = Some([encoding |-> CompressorEncoding(CodecNameOf(Item.format)),
                               entries |-> tar_data])
          /\ ext' = [files |-> 1, bytes_read |-> TarLen(tar_data),
                     bytes_written |-> CompressedLen(tar_data)]
          /\ UNCHANGED dirs
    /\ UNCHANGED <<callVars, cliVars, detectVars, guardVars, cur, format, temp, reader, guard, stream, whole, walk, zlen,
                   src, tree, tar_data, report, attempted>>

\* match self.compress(..).await in batch_compress.
FoldCompress ==
    /\ pc = "cfold"
    /\ IF res.kind = "Ok"
       THEN /\ report' = [report EXCEPT
                 !.successful = @ + 1,
                 !.total_files = @ + ext.files,
                 !.total_bytes_read = @ + ext.bytes_read,
                 !.total_bytes_written = @ + ext.bytes_written]
            /\ cur' = cur + 1
            /\ pc' = "batch"
       ELSE FailItem(Item.input, "Failed to compress")
    /\ res' = Pending
    /\ ext' = NoExtractReport
    /\ src' = "none"
    /\ tree' = {}
    /\ tar_data' = <<>>
    /\ artifact' = None
    /\ UNCHANGED <<callVars, cliVars, detectVars, guardVars, format, fsVars, temp, reader, guard, stream, whole, walk, zlen,
                   attempted, ret>>

\* -------------------------------------------------------- format_detection
\* let mut buffer = [0u8; 262], and the size of a tar header block.
BufferSize == 262
TarBlock == 512

\* The number of dot-separated suffixes a file name of the model has at most.
MaxSuffixes == 2

\* a & b on bytes.
RECURSIVE AndBits(_, _, _)
AndBits(a, b, n) ==
    IF n = 0 THEN 0
    ELSE (IF a % 2 = 1 /\ b % 2 = 1 THEN 1 ELSE 0) + 2 * AndBits(a \div 2, b \div 2, n - 1)
BitAnd(a, b) == AndBits(a, b, 8)

\* The signatures detect_from_magic_bytes compares the buffer with.
ZipLocalHeader == <<80, 75, 3, 4>>
ZipEndOfDirectory == <<80, 75, 5, 6>>
SevenZipMagic == <<55, 122, 188, 175, 39, 28>>
RarMagic == <<82, 97, 114, 33, 26, 7>>
ZstdMagic == <<40, 181, 47, 253>>
Lz4Magic == <<24, 77, 34, 4>>
GzipMagic == <<31, 139>>
UstarMagic == <<117, 115, 116, 97, 114, 0>>

\* <[u8]>::starts_with.
StartsWith(buffer, prefix) ==
    /\ Len(buffer) >= Len(prefix)
    /\ SubSeq(buffer, 1, Len(prefix)) = prefix

\* The byte at position i (from 1) of a file laid out as a tar header block:
\* a name field of letters, closed by a null or not, a checksum field of
\* digits or of letters, a magic field holding ustar, nulls or letters.
HeaderByte(h, i) ==
    CASE i <= 100 -> IF h.null /\ i = 100 THEN 0 ELSE 97
      [] i \in 149 .. 155 -> IF h.checksum THEN 48 ELSE 120
      [] i \in 258 .. 263 ->
            IF h.magic = "ustar" THEN UstarMagic[i - 257]
            ELSE IF h.magic = "nulls" THEN 0 ELSE 120
      [] OTHER -> 0

\* The bytes of a file: its first bytes are head, the others those of the
\* header block it is laid out as.
FileBytes(f) ==
    [i \in 1 .. f.size |-> IF i <= Len(f.head) THEN f.head[i] ELSE HeaderByte(f.header, i)]

\* file.read(&mut buffer): the number of bytes read, and the buffer after it.
ReadLen(f) == IF f.size < BufferSize THEN f.size ELSE BufferSize
ReadBuffer(f) ==
    LET bytes == FileBytes(f) IN
    [i \in 1 .. BufferSize |-> IF i <= ReadLen(f) THEN bytes[i] ELSE 0]

validate_tar_header(buffer) ==
    IF Len(buffer) < TarBlock THEN FALSE
    ELSE LET filename_area == SubSeq(buffer, 1, 100)
             has_null == \E i \in 1 .. 100 : filename_area[i] = 0
             checksum_area == SubSeq(buffer, 149, 155)
             checksum_valid ==
                 \A i \in 1 .. 7 : checksum_area[i] \in {0, 32} \cup (48 .. 57)
             magic_area == SubSeq(buffer, 258, 263)
             magic_valid ==
                 \/ magic_area = UstarMagic
                 \/ \A i \in 1 .. 6 : magic_area[i] = 0
         IN has_null /\ (checksum_valid \/ magic_valid)

\* The brotli test of detect_from_magic_bytes.
BrotliHeaderBits(buffer, n) ==
    /\ n >= 2
    /\ BitAnd(buffer[1], 224) = 0
    /\ BitAnd(buffer[2], 3) # 3

\* detect_from_magic_bytes, once the file is open and read.
detect_from_magic_bytes(f) ==
    LET n == ReadLen(f)
        buffer == ReadBuffer(f)
    IN
    IF n = 0 THEN "Unknown"
    ELSE IF StartsWith(buffer, ZipLocalHeader) \/ StartsWith(buffer, ZipEndOfDirectory)
    THEN "Zip"
    ELSE IF StartsWith(buffer, SevenZipMagic) THEN "SevenZip"
    ELSE IF StartsWith(buffer, RarMagic) THEN "Rar"
    ELSE IF StartsWith(buffer, ZstdMagic) THEN "TarZstd"
    ELSE IF StartsWith(buffer, Lz4Magic) THEN "TarLz4"
    ELSE IF BrotliHeaderBits(buffer, n) THEN "TarBrotli"
    ELSE IF StartsWith(buffer, GzipMagic) THEN "TarGzip"
    ELSE IF n >= TarBlock /\ validate_tar_header(buffer) THEN "TarPlain"
    ELSE "Unknown"

\* A file name is the sequence of its parts between dots: a.tar.gz is
\* <<"a", "tar", "gz">>, .zip is <<"", "zip">>.
\* Path::extension: what follows the last dot, None for a name without a dot
\* and for a name whose only dot is its first character.
Extension(name) ==
    IF Len(name) = 1 \/ (Len(name) = 2 /\ name[1] = "") THEN None
    ELSE Some(name[Len(name)])

\* str::ends_with of a dot followed by the parts of suffix.
EndsWith(name, suffix) ==
    /\ Len(name) > Len(suffix)
    /\ SubSeq(name, Len(name) - Len(suffix) + 1, Len(name)) = suffix

\* str::to_lowercase on the parts of the model's names.
ToLowercase(part) ==
    CASE part = "ZIP" -> "zip"
      [] part = "TAR" -> "tar"
      [] part = "TGZ" -> "tgz"
      [] OTHER -> part

detect_from_extension(name) ==
    LET extension == IF Extension(name) = None THEN "" ELSE Get(Extension(name))
        lower == ToLowercase(extension)
    IN
    IF EndsWith(name, <<"tar", "zst">>) THEN "TarZstd"
    ELSE IF EndsWith(name, <<"tar", "lz4">>) THEN "TarLz4"
    ELSE IF EndsWith(name, <<"tar", "br">>) THEN "TarBrotli"
    ELSE IF EndsWith(name, <<"tar", "gz">>) \/ EndsWith(name, <<"tgz">>) THEN "TarGzip"
    ELSE IF EndsWith(name, <<"tar">>) THEN "TarPlain"
    ELSE CASE lower = "zip" -> "Zip"
           [] lower = "7z" -> "SevenZip"
           [] lower = "rar" -> "Rar"
           [] lower = "zst" -> "TarZstd"
           [] lower = "lz4" -> "TarLz4"
           [] lower = "br" -> "TarBrotli"
           [] lower = "gz" -> "TarGzip"
           [] OTHER -> "Unknown"

\* The file names of the model: a stem, empty or not, and up to MaxSuffixes
\* suffixes.
Suffixes ==
    { "zip", "7z", "rar", "zst", "lz4", "br", "gz", "tar", "tgz", "txt", "ZIP", "TAR", "TGZ" }
FileNames ==
    { <<stem>> \o sfx : stem \in {"a", ""}, sfx \in SeqsUpTo(Suffixes, MaxSuffixes) }
        \ { <<"">> }

\* The first bytes of the files of the model: each signature, a signature cut
\* short, bytes that pass the brotli test, and letters.
Heads ==
    { <<>>, ZipLocalHeader, ZipEndOfDirectory, SevenZipMagic, RarMagic, ZstdMagic, Lz4Magic,
      GzipMagic, <<1, 0>>, <<24, 77>>, <<80, 75>>, <<31>>, <<31, 3>> }

\* The header blocks of the model.
Headers ==
    { [null |-> nl, checksum |-> ck, magic |-> mg] :
        nl \in BOOLEAN, ck \in BOOLEAN, mg \in {"ustar", "nulls", "other"} }
UstarHeader == [null |-> TRUE, checksum |-> TRUE, magic |-> "ustar"]

\* The files of the model: every head at every size over a ustar header, and
\* every header at the sizes of the buffer, of a block and above.
SniffedFiles ==
    { [head |-> h, size |-> sz, header |-> UstarHeader] :
        h \in Heads, sz \in {0, 1, 2, 6, BufferSize, TarBlock, TarBlock + 1} }
    \cup { [head |-> <<>>, size |-> sz, header |-> hd] :
             sz \in {BufferSize, TarBlock, TarBlock + 1}, hd \in Headers }

\* detect_format(path), called directly.
InitDetect ==
    /\ op = "detect_format"
    /\ unopenable = {}
    /\ policy = DefaultPolicy
    /\ concurrency = 1
    /\ auto = FALSE
    /\ filters = NoFilters
    /\ items = <<>>
    /\ files = {}
    /\ report = NoBatchReport
    /\ format = None
    /\ pc = "sniff"
    /\ InitLocals
    /\ \E nm \in FileNames : \E f \in SniffedFiles :
         sniffed = [name |-> nm, head |-> f.head, size |-> f.size, header |-> f.header]
    /\ magic = "pending"
    /\ detected = "pending"

\* match detect_from_magic_bytes(path): the I/O error of File::open or of
\* file.read is returned as it is, and so is every format but Unknown.
\* Where detect_format returns to: the extract command, or its caller.
AfterDetect == IF op = "cli_extract" THEN "choose" ELSE "done"

DetectFromMagicBytesThenName ==
    /\ pc = "sniff"
    /\ magic' = detect_from_magic_bytes(sniffed)
    /\ pc' = "fallback"
    /\ UNCHANGED detected
DetectFromMagicBytes ==
    /\ pc = "sniff"
    /\ \/ /\ magic' = "Io"
          /\ detected' = "Io"
          /\ pc' = AfterDetect
       \/ /\ magic' = detect_from_magic_bytes(sniffed)
          /\ IF magic' = "Unknown"
             THEN pc' = "fallback" /\ UNCHANGED detected
             ELSE pc' = AfterDetect /\ detected' = magic'

DetectMagic ==
    /\ op \in {"detect_format", "cli_extract"}
    /\ DetectFromMagicBytes
    /\ UNCHANGED <<callVars, cliVars, guardVars, compressVars, fsVars, extractVars, sniffed, cur, format, res, report,
                   attempted, ret>>

\* Ok(DetectedFormat::Unknown) => Ok(detect_from_extension(path)).
DetectFromExtension ==
    /\ op \in {"detect_format", "cli_extract"}
    /\ pc = "fallback"
    /\ detected' = detect_from_extension(sniffed.name)
    /\ pc' = AfterDetect
    /\ UNCHANGED <<callVars, cliVars, guardVars, compressVars, fsVars, extractVars, sniffed, magic, cur, format, res,
                   report, attempted, ret>>

\* ---------------------------------------------------------- specification
Next ==
    \/ Detect
    \/ MakeOutputDir
    \/ OpenInput
    \/ ExtractCall
    \/ TarReadAll
    \/ TarDecode
    \/ TarEntry
    \/ TarEnd
    \/ TarFinalize
    \/ ZipTemp
    \/ ZipCopy
    \/ ZipOpen
    \/ ZipEntry
    \/ ZipEnd
    \/ FoldExtract
    \/ CompressStart
    \/ CompressAppend
    \/ CompressFinish
    \/ FoldCompress
    \/ BatchReturn

\* The batch calls.
Spec == Init /\ [][Next]_vars

\* batch_extract alone, over inputs that can and cannot be opened.
NextBatchOpen ==
    \/ Detect
    \/ MakeOutputDir
    \/ OpenInput
    \/ ExtractCall
    \/ TarReadAll
    \/ TarDecode
    \/ TarEntry
    \/ TarEnd
    \/ TarFinalize
    \/ ZipTemp
    \/ ZipCopy
    \/ ZipOpen
    \/ ZipEntry
    \/ ZipEnd
    \/ FoldExtract
    \/ BatchReturn

BatchOpenSpec == InitBatchOpen /\ [][NextBatchOpen]_vars

\* Extractor::extract called directly.
NextExtract ==
    \/ ExtractCall
    \/ TarReadAll
    \/ TarDecode
    \/ TarEntry
    \/ TarEnd
    \/ TarFinalize
    \/ ZipTemp
    \/ ZipCopy
    \/ ZipOpen
    \/ ZipEntry
    \/ ZipEnd

ExtractSpec == InitExtract /\ [][NextExtract]_vars

\* Extractor::compress called directly.
NextCompress ==
    \/ CompressStart
    \/ CompressAppend
    \/ CompressFinish

CompressSpec == InitCompress /\ [][NextCompress]_vars

\* The second half of a round trip: the file compress wrote is opened and
\* handed to extract under the format name it was written with.
RoundTripExtract ==
    /\ op = "roundtrip"
    /\ pc = "reopen"
    /\ cur' = cur + 1
    /\ format' = Item.format
    /\ res' = Pending
    /\ ext' = NoExtractReport
    /\ pc' = "extract"
    /\ UNCHANGED <<callVars, cliVars, detectVars, guardVars, compressVars, fsVars, temp, reader, guard, stream, whole, walk,
                   zlen, report, attempted, ret>>

NextRoundTrip ==
    \/ CompressStart
    \/ CompressAppend
    \/ CompressFinish
    \/ RoundTripExtract
    \/ ExtractCall
    \/ TarReadAll
    \/ TarDecode
    \/ TarEntry
    \/ TarEnd
    \/ TarFinalize

RoundTripSpec == InitRoundTrip /\ [][NextRoundTrip]_vars

\* format_detection::detect_format called directly.
NextDetect ==
    \/ DetectMagic
    \/ DetectFromExtension

DetectSpec == InitDetect /\ [][NextDetect]_vars

\* ------------------------------------------------ main (Commands::Extract)
\* DetectedFormat::as_str.
AsStr(tag) ==
    CASE tag = "TarZstd" -> <<"tar", "zst">>
      [] tag = "TarLz4" -> <<"tar", "lz4">>
      [] tag = "TarBrotli" -> <<"tar", "br">>
      [] tag = "TarGzip" -> <<"tar", "gz">>
      [] tag = "TarPlain" -> <<"tar">>
      [] tag = "Zip" -> <<"zip">>
      [] tag = "SevenZip" -> <<"7z">>
      [] tag = "Rar" -> <<"rar">>
      [] OTHER -> <<"unknown">>

\* The values of --format the command is run with: its default and two
\* registered names.
CliFormats == { <<"auto">>, <<"tar", "zst">>, <<"zip">> }

\* The input files the command is run on.
CliFiles ==
    { [name |-> nm, head |-> h, size |-> sz, header |-> UstarHeader] :
        nm \in { <<"a">>, <<"a", "zip">>, <<"a", "tar", "zst">>, <<"a", "txt">> },
        h \in { <<>>, ZipLocalHeader, ZstdMagic, <<80, 75>> },
        sz \in {0, 6} }

\* quench extract --input .. --output .. [--format f] [--auto].
InitCli ==
    /\ op = "cli_extract"
    /\ unopenable = {}
    /\ policy = StrictPolicy
    /\ concurrency \in Concurrencies
    /\ auto \in BOOLEAN
    /\ filters = NoFilters
    /\ \E f \in CliFormats :
         items = << [input |-> InputPath(1), output |-> OutputDir(1), format |-> f] >>
    /\ files = {}
    /\ report = NoBatchReport
    /\ format = None
    /\ pc = "cli"
    /\ InitLocals
    /\ sniffed \in CliFiles
    /\ magic = "pending"
    /\ detected = "pending"

CliFrame ==
    UNCHANGED <<callVars, compressVars, guardVars, fsVars, extractVars, sniffed, magic, detected,
                cur, res, report, attempted>>

\* if auto || format == "auto" { match detect_format(&input) .. } else { format }.
CliStart ==
    /\ op = "cli_extract"
    /\ pc = "cli"
    /\ IF auto \/ Item.format = <<"auto">>
       THEN pc' = "sniff" /\ UNCHANGED format
       ELSE pc' = "cli_open" /\ format' = Item.format
    /\ CliFrame
    /\ UNCHANGED <<printed, ret>>

\* The arms of match detect_format(&input): Ok(fmt) prints the name and
\* takes it; Err(e) prints the warning and takes the value of --format.
CliChoose ==
    /\ op = "cli_extract"
    /\ pc = "choose"
    /\ IF detected = "Io"
       THEN /\ printed' = printed \o << "Warning: Could not auto-detect format",
                                        "Falling back to specified format" >>
            /\ format' = Item.format
       ELSE /\ printed' = Append(printed, "Detected format")
            /\ format' = AsStr(detected)
    /\ pc' = "cli_open"
    /\ CliFrame
    /\ UNCHANGED ret

\* tokio::fs::File::open(&input).await?, then extractor.extract(..).
CliOpen ==
    /\ op = "cli_extract"
    /\ pc = "cli_open"
    /\ \/ pc' = "extract" /\ UNCHANGED ret
       \/ pc' = "done" /\ ret' = Err("Io", "open input")
    /\ CliFrame
    /\ UNCHANGED <<printed, format>>

NextCli ==
    \/ CliStart
    \/ DetectMagic
    \/ DetectFromExtension
    \/ CliChoose
    \/ CliOpen
    \/ ExtractCall
    \/ TarReadAll
    \/ TarDecode
    \/ TarEntry
    \/ TarEnd
    \/ TarFinalize
    \/ ZipTemp
    \/ ZipCopy
    \/ ZipOpen
    \/ ZipEntry
    \/ ZipEnd

CliSpec == InitCli /\ [][NextCli]_vars

\* ----------------------------------------------------------------- claims
\* The failed items of the report so far, as its errors list names them.
FailedItems == { i \in 1 .. Len(items) : \E k \in 1 .. Len(report.errors) :
                    /\ report.errors[k].item = i
                    /\ report.errors[k].text \in
                         { "Failed to detect format for", "Failed to create output directory",
                           "Failed to open", "Failed to extract", "Failed to compress" } }

\* C1: in a batch report total is the length of the input list, every item
\* whose iteration has ended is counted once, as successful or as failed, and
\* when the call has returned successful + failed = total.
C1_CountsSumToTotal ==
    /\ report.total = Len(items)
    /\ report.successful + report.failed = cur
    /\ report.failed = Cardinality(FailedItems)
    /\ pc = "done" => report.successful + report.failed = report.total

\* A batch of MaxItems items has returned with a success and a failure.
C1_Witness ==
    /\ pc = "done"
    /\ Len(items) = MaxItems
    /\ report.successful >= 1
    /\ report.failed >= 1

\* C2: a batch call returns nothing but Ok(report), and returns it only when
\* every item of the input list has been attempted: the items are attempted
\* in input order, one after the other, whatever became of the earlier ones.
C2_BatchAlwaysCompletes ==
    /\ ret # Pending => pc = "done" /\ ret = Ok
    /\ pc = "done" => attempted = 1 .. Len(items)
    /\ attempted \in { 1 .. cur, 1 .. (cur + 1) }

\* A batch has returned after its first item failed and a later one was
\* attempted all the same.
C2_Witness ==
    /\ pc = "done"
    /\ ret = Ok
    /\ Len(items) >= 2
    /\ 1 \in FailedItems
    /\ 2 \in attempted

\* C3: every string of a batch report's errors list displays the input path
\* of the item it was pushed for, whatever the kind of the failure, and the
\* strings stand in input order.
C3_ErrorsNameInputPath ==
    /\ \A k \in 1 .. Len(report.errors) :
         report.errors[k].path = items[report.errors[k].item].input
    /\ \A k, l \in 1 .. Len(report.errors) :
         k <= l => report.errors[k].item <= report.errors[l].item

\* An item failed at the creation of its output directory.
C3_Witness ==
    \E k \in 1 .. Len(report.errors) : report.errors[k].text = "Failed to create output directory"

\* The names with_defaults registers a container under, and those of its
\* sequential (tar) containers.
RegisteredNames == { ContainerName(Containers[i]) : i \in 1 .. Len(Containers) }
TarNames == { TarContainerName(c) : c \in CodecNames }

\* The outcomes of the entries that failed at entry level.
EntryFailures == { "entry_read", "path", "mkdir", "create", "unpack", "copy" }

\* C4: with skip_bad_blocks set no entry-level failure (reading the entry,
\* resolving its path, creating its parent directory, creating the file,
\* unpacking or copying it) ends a tar or zip extraction: no entry is fatal
\* and no returned error comes from an entry.
C4_SkipNeverAborts ==
    policy.skip_bad_blocks =>
        /\ \A k \in 1 .. Len(walk) : walk[k] # "fatal"
        /\ res.cause \notin EntryFailures

\* C5: without skip_bad_blocks the extraction ends at the first entry-level
\* failure: a failed entry is the last entry handled, the call has returned
\* the error of that entry, and no entry was skipped before it.
C5_StrictAbortsAtFirstFailure ==
    ~policy.skip_bad_blocks =>
        /\ \A k \in 1 .. Len(walk) : walk[k] # "skipped"
        /\ \A k \in 1 .. Len(walk) :
             walk[k] = "fatal" =>
                 /\ k = Len(walk)
                 /\ pc = "done"
                 /\ res.kind \in {"IntegrityFailure", "Io"}
                 /\ res.cause \in EntryFailures
                 /\ res.entry = k
                 /\ ret = res

\* A strict extraction has ended at the failure of its second entry, after
\* a first entry that was extracted.
C5_Witness ==
    /\ ~policy.skip_bad_blocks
    /\ Len(walk) = 2
    /\ walk[1] = "ok"
    /\ walk[2] = "fatal"
    /\ res.cause \in {"entry_read", "path", "unpack", "copy", "create"}

\* The decompressed stream of the extraction passes the checks of the policy.
StreamMatches ==
    /\ policy.crc32 # None => Crc32(stream) = Get(policy.crc32)
    /\ (policy.hmac_key # None /\ policy.hmac_tag # None) =>
           HmacSha256(Get(policy.hmac_key), stream) = Get(policy.hmac_tag)

\* C6: a tar extraction whose decompressed stream does not pass the CRC32 or
\* HMAC check of the policy never returns Ok, with skip_bad_blocks set or
\* not: an extraction that returned Ok had a stream that passes.
C6_MismatchNeverOk ==
    (format \in TarNames /\ whole /\ res.kind = "Ok") => StreamMatches

\* The files and directories below the destination of the extraction.
UnderDest(S) == { p \in S : Under(Dest, p) /\ Resolve(p) # Resolve(Dest) }

\* C7: a strict tar extraction with an expected CRC32 that the stream does
\* not have (a byte of it was flipped, the last one included) returns an
\* integrity failure and has written no file below the destination.
C7_StrictMismatchWritesNothing ==
    ( /\ format \in TarNames
      /\ ~policy.skip_bad_blocks
      /\ policy.crc32 # None
      /\ whole
      /\ pc = "done"
      /\ ~StreamMatches )
    => /\ res.kind = "IntegrityFailure"
       /\ UnderDest(files) = {}

\* C8: every directory and file an extraction makes lies below its
\* destination, for tar and for zip, whatever the names of the entries.
C8_WritesStayUnderDestination ==
    op = "extract" =>
        \A p \in (dirs \cup files) \ {WorkDir} : Under(Dest, p)

\* C9: when a zip extraction has returned, on whatever path, its temporary
\* file no longer exists.
C9_TempFileRemoved ==
    (format = <<"zip">> /\ (pc = "done" \/ res # Pending)) => temp # "exists"

\* A zip extraction has returned the error of an entry after its temporary
\* file was made, and the file is gone.
C9_Witness ==
    /\ format = <<"zip">>
    /\ pc = "done"
    /\ res.entry > 0
    /\ temp = "removed"

\* C10: extract with a format name that no container is registered under
\* returns Unsupported carrying that name, in one step: the reader is never
\* read, no temporary file is made and the filesystem stays as it was.
C10_UnregisteredIsUnsupported ==
    (op = "extract" /\ format \notin RegisteredNames) =>
        /\ pc \in {"extract", "done"}
        /\ reader = 0
        /\ temp = "none"
        /\ dirs = {WorkDir}
        /\ files \subseteq {Dest}
        /\ pc = "done" => (res = Res("Unsupported", "find", 0, format) /\ ret = res)

\* extract("tar.gz", ..) has returned Unsupported("tar.gz").
C10_Witness ==
    /\ op = "extract"
    /\ format = <<"tar", "gz">>
    /\ pc = "done"
    /\ res.kind = "Unsupported"
    /\ res.name = <<"tar", "gz">>

\* The files that are on the filesystem hold the data they held before the
\* call, and no directory was made.
FilesystemAsBefore ==
    /\ dirs = {WorkDir}
    /\ \A p \in files : OldContent(p) \in content

\* C11: compress with a format string whose codec is not registered returns
\* Unsupported carrying the requested format string, and returns it before
\* the source is looked at and before the destination is created: the
\* filesystem is as it was.
C11_UnsupportedNamesRequest ==
    (op = "compress" /\ res.kind = "Unsupported") =>
        /\ res.name = Item.format
        /\ src = "none"
        /\ tree = {}
        /\ artifact = None
        /\ FilesystemAsBefore

\* The failures of a round trip that come from the machine and not from the
\* archive: a file that cannot be opened, read, created or written, a
\* builder, compressor or decoder that cannot be made or finished.
EnvironmentFailures ==
    { "open source", "append", "finish", "compress", "create", "write", "read_to_end",
      "decoder" }

\* C12: compressing a directory under a format name registered for
\* extraction and extracting the result under the same name and the default
\* policy succeeds, and every file of the directory that the filters select
\* is below the destination at its relative path, with its data.
C12_RoundTripReproduces ==
    ( /\ op = "roundtrip"
      /\ pc = "done"
      /\ src \notin {"file", "missing"}
      /\ res.cause \notin EnvironmentFailures )
    =>
        /\ res.kind = "Ok"
        /\ cur = 1
        /\ \A f \in tree :
             Selected(f.path) =>
                 <<Resolve(Join(Dest, Components(f.path))), f.data>> \in content

\* The number of well-formed entries a decompressed stream holds before its
\* end-of-archive mark: a file header with its data block, or a directory
\* header; any other block is a bad header.
RECURSIVE ValidEntries(_)
ValidEntries(s) ==
    IF s = <<>> THEN 0
    ELSE IF s[1] = 0 THEN 0
    ELSE IF s[1] = 1
         THEN IF Len(s) >= 2 THEN 1 + ValidEntries(SubSeq(s, 3, Len(s))) ELSE 0
    ELSE IF s[1] = 2 THEN 1 + ValidEntries(SubSeq(s, 2, Len(s)))
    ELSE ValidEntries(SubSeq(s, 2, Len(s)))

\* The number of entries of the walk with outcome o.
Outcomes(o) == Cardinality({ k \in 1 .. Len(walk) : walk[k] = o })

\* C13: under the default policy a tar extraction whose bad entries were all
\* skipped returns Ok, counts in entries the entries that were not bad, has
\* at least one warning for each bad entry, and has read every well-formed
\* entry of the stream: the entries after a bad one are extracted too.
C13_LenientContinues ==
    ( /\ op = "extract"
      /\ pc = "done"
      /\ policy = DefaultPolicy
      /\ format \in TarNames
      /\ walk # <<>>
      /\ \A k \in 1 .. Len(walk) : walk[k] \in {"ok", "skipped"} )
    =>
        /\ res = Ok
        /\ ext.entries = Outcomes("ok")
        /\ Len(ext.warnings) >= Outcomes("skipped")
        /\ ValidEntries(SubSeq(stream, 1, guard.bytes)) = ValidEntries(stream)

\* The magic checks in their priority order, each with the format it stands
\* for and whether the bytes of a file pass it.
MagicChecks(bytes) ==
    << <<"Zip", StartsWith(bytes, ZipLocalHeader) \/ StartsWith(bytes, ZipEndOfDirectory)>>,
       <<"SevenZip", StartsWith(bytes, SevenZipMagic)>>,
       <<"Rar", StartsWith(bytes, RarMagic)>>,
       <<"TarZstd", StartsWith(bytes, ZstdMagic)>>,
       <<"TarLz4", StartsWith(bytes, Lz4Magic)>>,
       <<"TarBrotli", BrotliHeaderBits(bytes, Len(bytes))>>,
       <<"TarGzip", StartsWith(bytes, GzipMagic)>> >>

\* The format of the first check the bytes pass, or None.
FirstMatch(bytes) ==
    LET checks == MagicChecks(bytes)
        hits == { i \in 1 .. Len(checks) : checks[i][2] }
    IN IF hits = {} THEN None
       ELSE Some(checks[CHOOSE i \in hits : \A j \in hits : i <= j][1])

\* detect_format has opened and read the file.
Sniffed == op = "detect_format" /\ magic \notin {"pending", "Io"}

\* C14: detect_format returns Unknown for every file of zero bytes that it
\* could open and read, whatever the name of the file.
C14_EmptyFileIsUnknown ==
    (Sniffed /\ pc = "done" /\ sniffed.size = 0) => detected = "Unknown"

\* C15: when the bytes of a file pass a magic check, detect_format returns
\* the format of the first check passed, in the order zip, 7z, rar, zstd,
\* lz4, brotli header bits, gzip, whatever the name of the file; the file name
\* is consulted only when the bytes pass no check; a file that begins with the
\* zip local-file-header signature is Zip.
C15_MagicIsAuthoritative ==
    Sniffed =>
        LET bytes == FileBytes(sniffed)
            first == FirstMatch(bytes)
        IN /\ first # None => (pc = "done" /\ detected = Get(first))
           /\ magic = "Unknown" => first = None
           /\ StartsWith(bytes, ZipLocalHeader) => detected = "Zip"

\* A file named a.tar.gz that begins with the zip local-file-header
\* signature was detected as Zip, and one named a.zip that begins with the
\* lz4 frame signature would pass the brotli test too.
C15_Witness ==
    /\ op = "detect_format"
    /\ pc = "done"
    /\ sniffed.name = <<"a", "tar", "gz">>
    /\ sniffed.size >= 4
    /\ sniffed.head = ZipLocalHeader
    /\ detected = "Zip"

\* A tar header block as the three conditions describe it: a null in the
\* name field, a checksum field of digits, spaces and nulls, and a magic
\* field that holds ustar or nulls.
ValidTarHeader(bytes) ==
    /\ \E i \in 1 .. 100 : bytes[i] = 0
    /\ \A i \in 149 .. 155 : bytes[i] \in {0, 32} \cup (48 .. 57)
    /\ \/ SubSeq(bytes, 258, 263) = UstarMagic
       \/ \A i \in 258 .. 263 : bytes[i] = 0

\* C16: a file of at least 512 bytes that passes no magic check is
\* classified as plain tar by detect_from_magic_bytes exactly when its first
\* block is a valid tar header, whatever its name.
C16_TarHeaderClassified ==
    (Sniffed /\ sniffed.size >= TarBlock /\ FirstMatch(FileBytes(sniffed)) = None) =>
        (magic = "TarPlain" <=> ValidTarHeader(FileBytes(sniffed)))

\* The suffixes of the extension fallback in the order they are tested, the
\* compound ones first, each with its format.
SuffixTable ==
    << << <<"tar", "zst">>, "TarZstd" >>,
       << <<"tar", "lz4">>, "TarLz4" >>,
       << <<"tar", "br">>, "TarBrotli" >>,
       << <<"tar", "gz">>, "TarGzip" >>,
       << <<"tgz">>, "TarGzip" >>,
       << <<"tar">>, "TarPlain" >>,
       << <<"zip">>, "Zip" >>,
       << <<"7z">>, "SevenZip" >>,
       << <<"rar">>, "Rar" >>,
       << <<"zst">>, "TarZstd" >>,
       << <<"lz4">>, "TarLz4" >>,
       << <<"br">>, "TarBrotli" >>,
       << <<"gz">>, "TarGzip" >> >>

\* The format of the first suffix of the table the name ends with, Unknown
\* when it ends with none.
BySuffix(name) ==
    LET hits == { i \in 1 .. Len(SuffixTable) : EndsWith(name, SuffixTable[i][1]) } IN
    IF hits = {} THEN "Unknown"
    ELSE SuffixTable[CHOOSE i \in hits : \A j \in hits : i <= j][2]

\* C17: when no magic check matched, detect_format returns the format of the
\* first suffix the file name ends with, compound suffixes before single
\* extensions, and Unknown for every other extension and for a name without
\* extension.
C17_ExtensionFallback ==
    (Sniffed /\ pc = "done" /\ magic = "Unknown") => detected = BySuffix(sniffed.name)

\* The items of a batch whose processing has begun and has not ended.
InFlight == attempted \ (1 .. cur)

\* C18: in a batch call no more items are in processing at a time than the
\* concurrency option says, and the bound is the configured one: while fewer
\* items than that are in processing and an item has not been started, the
\* next item can start without waiting for a running one.
C18_ConcurrencyHonoured ==
    op \in {"batch_extract", "batch_compress"} =>
        /\ Cardinality(InFlight) <= concurrency
        /\ ( /\ pc # "done"
             /\ Cardinality(InFlight) < concurrency
             /\ attempted # 1 .. Len(items) )
           => ENABLED (Detect \/ CompressStart)

\* C19: the files field of the CompressReport that compress returns is the
\* number of entries that were appended to the tar builder: 0 for an empty
\* or fully filtered directory, n for n files.
C19_FilesCountsEntries ==
    (op = "compress" /\ pc = "done" /\ res.kind = "Ok") => ext.files = Len(tar_data)

\* The strings a successful item's warnings add to the errors list of the
\* batch report: each warning with the input path of the item before it.
WarningStrings ==
    [k \in 1 .. Len(ext.warnings) |-> ErrorString(cur + 1, Item.input, ext.warnings[k])]

\* C20: in batch_extract the step that takes the Result of an item adds, for
\* Ok, one to successful, nothing to failed, the report's entries and
\* bytes_written to total_files and total_bytes and the warnings, each with
\* the input path of the item, to errors; for an error it leaves successful,
\* total_files and total_bytes as they are; and no other step changes them.
C20_FoldStep ==
    op = "batch_extract" =>
        IF pc = "fold" /\ res.kind = "Ok"
        THEN /\ report'.successful = report.successful + 1
             /\ report'.failed = report.failed
             /\ report'.total_files = report.total_files + ext.entries
             /\ report'.total_bytes = report.total_bytes + ext.bytes_written
             /\ report'.errors = report.errors \o WarningStrings
        ELSE /\ report'.successful = report.successful
             /\ report'.total_files = report.total_files
             /\ report'.total_bytes = report.total_bytes
             /\ pc = "fold" => report'.failed = report.failed + 1

C20_OnlySuccessesAreSummed == [][C20_FoldStep]_vars

\* A batch of two items has returned, both extracted: the entry of one is
\* counted and the warning of the other is in errors under the input path of
\* its item, which is not counted as failed.
C20_Witness ==
    /\ op = "batch_extract"
    /\ pc = "done"
    /\ report.successful = 2
    /\ report.failed = 0
    /\ report.total_files >= 1
    /\ report.total_bytes >= 1
    /\ \E k \in 1 .. Len(report.errors) :
         /\ report.errors[k].text \in
              {"entry read failure", "path error", "failed unpack", "entry read failed"}
         /\ report.errors[k].path = items[report.errors[k].item].input

\* The checks a policy configures.
CrcExpected(pol) == pol.crc32 # None
HmacConfigured(pol) == pol.hmac_key # None /\ pol.hmac_tag # None

\* The bytes pass the checks the policy configures.
PassesChecks(bytes, pol) ==
    /\ CrcExpected(pol) => Crc32(bytes) = Get(pol.crc32)
    /\ HmacConfigured(pol) => HmacSha256(Get(pol.hmac_key), bytes) = Get(pol.hmac_tag)

\* C21: guard(bytes, policy) returns Ok exactly when the bytes pass the CRC32
\* check, if one is expected, and the HMAC check, if one is configured; it
\* returns Ok for every input when no check is configured; and it returns the
\* same for every value of skip_bad_blocks, retry_attempts and block_size.
C21_GuardComposes ==
    (op = "guard" /\ res # Pending) =>
        /\ res.kind = "Ok" <=> PassesChecks(stream, policy)
        /\ res.kind \in {"Ok", "IntegrityFailure"}
        /\ (~CrcExpected(policy) /\ ~HmacConfigured(policy)) => res = Ok
        /\ \A r \in RetryAttempts, sk \in BOOLEAN, b \in BlockSizes :
             VerdictResult(Guard(stream, [policy EXCEPT !.retry_attempts = r,
                                                        !.skip_bad_blocks = sk,
                                                        !.block_size = b])) = res

\* guard has returned the HMAC failure of bytes whose CRC32 is the expected
\* one, under a policy that configures both checks.
C21_Witness ==
    /\ op = "guard"
    /\ pc = "done"
    /\ CrcExpected(policy)
    /\ HmacConfigured(policy)
    /\ Len(stream) >= 2
    /\ Crc32(stream) = Get(policy.crc32)
    /\ res = Err("IntegrityFailure", "hmac mismatch")

\* C26: the bytes IntegrityGuardReader hands to its caller are the bytes of
\* the inner source, unchanged and in order, however the reads split them;
\* its hashers have been fed those bytes once, in order; and when the source
\* was read to its end, finalize returns what guard(bytes, policy) returns
\* on the bytes of the source.
C26_StreamingAgreesWithOneShot ==
    op = "guard" =>
        /\ handed = stream
        /\ pc # "reader_new" =>
               /\ guard.bytes = Len(stream)
               /\ CrcExpected(policy) => guard.crc = Some(CrcFeed(CrcInit, stream))
               /\ policy.hmac_key # None =>
                      guard.hmac = Some(CrcFeed(MacInit(Get(policy.hmac_key)), stream))
        /\ (whole /\ ret # Pending) =>
               /\ ret = VerdictResult(Guard(stream, policy))
               /\ ret.kind = "Ok" <=> PassesChecks(stream, policy)
        /\ (whole /\ res # Pending) => res = ret

\* A source of MaxBytes bytes was read one byte at a time under a policy with
\* a key and a tag, and finalize and guard both returned the HMAC failure.
C26_Witness ==
    /\ op = "guard"
    /\ pc = "done"
    /\ Len(stream) = MaxBytes
    /\ reader = MaxBytes + 1
    /\ HmacConfigured(policy)
    /\ ret = Err("IntegrityFailure", "hmac mismatch")
    /\ res = ret

\* C22: when a tar extraction finalizes its guard, the guard has read every
\* byte of the decompressed stream, also the bytes after the end-of-archive
\* mark and after a skipped bad entry: the digests that are compared are
\* those of the whole stream.
C22_GuardReadsWholeStream ==
    (op = "extract" /\ format \in TarNames /\ whole /\ pc \in {"tar_finalize", "done"}) =>
        /\ guard.bytes = Len(stream)
        /\ CrcExpected(policy) => CrcFinal(Get(guard.crc)) = Crc32(stream)

\* The steps whose code is inside a tokio::task::spawn_blocking closure that
\* the caller awaits: the worker closures of the tar and the zip extraction
\* and the making of the temporary file.  Every other step runs in the async
\* fn itself, on the thread of the scheduler.
WorkerSteps == {"tar_decode", "tar_walk", "tar_finalize", "zip_temp", "zip_open", "zip_walk"}

\* The next step does blocking work: it decompresses or unpacks entries
\* (tar, zip), walks the source, builds the container and compresses
\* (compress), or sniffs the format of a batch item.
BlockingWorkNext ==
    \/ pc \in {"tar_decode", "tar_walk", "zip_open", "zip_walk"}
    \/ pc = "cwalk"
    \/ op = "batch_extract" /\ pc = "batch" /\ cur < Len(items)

\* C23: every step that does blocking work (decompression, unpacking,
\* directory walk, container build, compression, format sniffing of a batch)
\* runs as a task on the worker pool, never on the scheduler's thread.
C23_BlockingWorkOnWorkers ==
    BlockingWorkNext => pc \in WorkerSteps

\* The extract command was asked to sniff the format, and has fixed the
\* format name it extracts with.
SniffRequested == auto \/ Item.format = <<"auto">>
FormatChosen == op = "cli_extract" /\ pc \notin {"cli", "sniff", "fallback", "choose"}

\* C24: the extract command, asked to sniff, extracts with the value of
\* --format and prints a warning when the sniffer returned Unknown or an
\* error, and extracts with the sniffed name otherwise; not asked to sniff,
\* it extracts with the value of --format and does not run the sniffer.
C24_InconclusiveSniffFallsBack ==
    FormatChosen =>
        /\ (SniffRequested /\ detected \in {"Unknown", "Io"}) =>
               /\ format = Item.format
               /\ \E k \in 1 .. Len(printed) :
                    printed[k] = "Warning: Could not auto-detect format"
        /\ (SniffRequested /\ detected \notin {"Unknown", "Io"}) =>
               format = AsStr(detected)
        /\ ~SniffRequested =>
               /\ format = Item.format
               /\ magic = "pending"
               /\ detected = "pending"

\* The file f of the source has an entry in the container under its relative
\* path.
Appended(f) ==
    \E k \in 1 .. Len(tar_data) :
        tar_data[k].name = Components(f.path) /\ tar_data[k].data = f.data

\* The filters admit a relative path: an include pattern, if a list is
\* given, is a substring of it, and no exclude pattern is.
Admitted(path) ==
    /\ filters.include = None \/ \E pat \in Get(filters.include) : Contains(path, pat)
    /\ filters.exclude = None \/ \A pat \in Get(filters.exclude) : ~Contains(path, pat)

\* C25: of the files the walk of a source directory has met, those and only
\* those that the filters admit by their relative path are appended, each
\* once; a file that an include and an exclude pattern both match is not
\* appended, an empty include list admits no file, and an exclude pattern
\* that only the absolute path contains (the separator, for a file directly
\* in the source) excludes nothing.
C25_FiltersSelectByRelativePath ==
    (op = "compress" /\ src = "dir" /\ res.cause \notin {"open source", "append"}) =>
        /\ \A f \in tree : Appended(f) <=> Admitted(f.path)
        /\ Len(tar_data) = Cardinality({ f \in tree : Admitted(f.path) })
        /\ filters.include = Some({}) => tar_data = <<>>
        /\ \A f \in tree :
             ( /\ filters.include # None /\ filters.exclude # None
               /\ \E pat \in Get(filters.include) : Contains(f.path, pat)
               /\ \E pat \in Get(filters.exclude) : Contains(f.path, pat) ) => ~Appended(f)
        /\ \A f \in tree :
             (filters.include = None /\ filters.exclude = Some({<<"/">>}) /\ Len(f.path) = 1)
                 => Appended(f)

\* A directory with the files a and d/a was compressed with include a and
\* exclude /: a is in the container and d/a is not.
C25_Witness ==
    /\ op = "compress"
    /\ pc = "done"
    /\ res = Ok
    /\ src = "dir"
    /\ filters = Filters(Some({<<"a">>}), Some({<<"/">>}))
    /\ { f.path : f \in tree } = { <<"a">>, <<"d", "/", "a">> }
    /\ Len(tar_data) = 1
    /\ tar_data[1].name = <<"a">>

\* The errors compress raises before it reaches File::create.
BuildErrors == {"open source", "append", "finish", "compress"}

\* C27: while compress builds the container, and when it has returned an
\* error from opening or appending a file, finishing the container or
\* compressing, the destination is as it was before the call: absent if it
\* was absent, and with its old content if it was there.
C27_DestinationWrittenLast ==
    (op = "compress" /\ (pc \in {"compress", "cwalk"} \/ res.cause \in BuildErrors)) =>
        /\ FilesystemAsBefore
        /\ files \subseteq {Resolve(Item.output)}
        /\ content \subseteq {OldContent(Resolve(Item.output))}

\* compress returned the compressor's error and a file with its old content
\* is at the destination.
C27_Witness ==
    /\ op = "compress"
    /\ pc = "done"
    /\ res = Err("IntegrityFailure", "compress")
    /\ tar_data # <<>>
    /\ files = {Resolve(Item.output)}
    /\ content = {OldContent(Resolve(Item.output))}

\* The report holds the error string `text` for item i.
Reported(i, text) ==
    \E k \in 1 .. Len(report.errors) :
        report.errors[k] = ErrorString(i, items[i].input, text)

\* C28: in batch_extract an item whose input cannot be opened fails at format
\* detection and leaves the filesystem alone: no directory is at or under
\* its output directory and no file is written there (a file that blocked
\* the path before the call keeps its content); an item whose iteration
\* ended without a detection or directory error has its output directory.
C28_UnopenableInputFailsBeforeMkdir ==
    op = "batch_extract" =>
        /\ \A i \in unopenable :
             LET out == Resolve(items[i].output) IN
             /\ i <= cur => Reported(i, "Failed to detect format for")
             /\ i = cur + 1 => pc = "batch"
             /\ \A d \in dirs : ~IsPrefix(out, d)
             /\ \A f \in files : IsPrefix(out, f) => f = out /\ OldContent(f) \in content
        /\ \A j \in 1 .. cur :
             (j \notin unopenable /\ ~ \E k \in 1 .. Len(report.errors) :
                  /\ report.errors[k].item = j
                  /\ report.errors[k].text \in
                       {"Failed to detect format for", "Failed to create output directory"})
                 => Resolve(items[j].output) \in dirs

\* A batch of two returned: the first input could not be opened and has no
\* output directory, the second was extracted into its own.
C28_Witness ==
    /\ op = "batch_extract"
    /\ pc = "done"
    /\ Len(items) = 2
    /\ unopenable = {1}
    /\ Reported(1, "Failed to detect format for")
    /\ Resolve(items[1].output) \notin dirs
    /\ Resolve(items[2].output) \in dirs
    /\ report.successful = 1
    /\ report.failed = 1

====
